---- MODULE Spec2Model ----
(***************************************************************************)
(* MindToss: capture -> validation -> delivery pipeline.                   *)
(*                                                                         *)
(* The client is the React component App (the Convex-backed version), the  *)
(* server is the Convex HTTP route /api/send-email with the sendEmail      *)
(* action behind it.                                                       *)
(*                                                                         *)
(* A JavaScript string is a sequence of one-character strings; the value   *)
(* undefined/null is NULL.                                                 *)
(***************************************************************************)
EXTENDS Integers, Sequences, FiniteSets, TLC

(***************************************************************************)
(* Strings                                                                 *)
(***************************************************************************)
NULL == <<"undefined">>

\* characters matched by \s and removed by String.prototype.trim
WS == {" ", "\t"}

UPPER == {"A", "B", "E", "L", "M", "P", "X"}

LowerOf ==
  [c \in UPPER |->
     CASE c = "A" -> "a"
       [] c = "B" -> "b"
       [] c = "E" -> "e"
       [] c = "L" -> "l"
       [] c = "M" -> "m"
       [] c = "P" -> "p"
       [] OTHER -> "x"]

toLowerChar(c) == IF c \in UPPER THEN LowerOf[c] ELSE c

toLowerCase(s) == [i \in 1..Len(s) |-> toLowerChar(s[i])]

RECURSIVE trimStart(_)
trimStart(s) == IF s # <<>> /\ Head(s) \in WS THEN trimStart(Tail(s)) ELSE s

RECURSIVE trimEnd(_)
trimEnd(s) ==
  IF s # <<>> /\ s[Len(s)] \in WS THEN trimEnd(SubSeq(s, 1, Len(s) - 1)) ELSE s

trim(s) == trimEnd(trimStart(s))

endsWith(s, suffix) ==
  /\ Len(s) >= Len(suffix)
  /\ SubSeq(s, Len(s) - Len(suffix) + 1, Len(s)) = suffix

\* s.split('@')[0]
RECURSIVE splitAtFirst(_)
splitAtFirst(s) ==
  IF s = <<>> \/ Head(s) = "@" THEN <<>> ELSE <<Head(s)>> \o splitAtFirst(Tail(s))

\* JavaScript truthiness of an optional string
truthy(s) == s # NULL /\ s # <<>>

(***************************************************************************)
(* Email address validator                                                 *)
(***************************************************************************)
GENERATED_SUFFIX ==
  <<"@", "m", "i", "n", "d", "t", "o", "s", "s", ".", "l", "o", "c", "a", "l">>

RELAY_SUFFIX ==
  <<"@", "p", "r", "i", "v", "a", "t", "e", "r", "e", "l", "a", "y", ".",
    "a", "p", "p", "l", "e", "i", "d", ".", "c", "o", "m">>

\* /^[^\s@]+@[^\s@]+\.[^\s@]+$/ : some '@' at i and some later '.' at j cut the
\* string into three non-empty runs of characters that are neither \s nor '@'
EMAIL_REGEX_test(s) ==
  \E i \in 1..Len(s) : \E j \in 1..Len(s) :
    /\ s[i] = "@"
    /\ s[j] = "."
    /\ 1 < i
    /\ i + 1 < j
    /\ j < Len(s)
    /\ \A k \in 1..Len(s) : k # i => s[k] \notin (WS \cup {"@"})

isGeneratedAppleEmail(email) ==
  truthy(email) /\ endsWith(toLowerCase(email), GENERATED_SUFFIX)

isPrivateRelayEmail(email) ==
  truthy(email) /\ endsWith(toLowerCase(email), RELAY_SUFFIX)

\* a slip that lower-cases without trimming
normalizeEmail_noTrim(email) ==
  toLowerCase(IF truthy(email) THEN email ELSE <<>>)

normalizeEmail(email) ==
  toLowerCase(trim(IF truthy(email) THEN email ELSE <<>>))

getDestinationEmailStatus_regexFirst(email) ==
  LET normalizedEmail == normalizeEmail(email) IN
    IF ~truthy(normalizedEmail) THEN "empty"
    ELSE IF ~EMAIL_REGEX_test(normalizedEmail) THEN "invalid"
    ELSE IF isGeneratedAppleEmail(normalizedEmail) THEN "generated"
    ELSE IF isPrivateRelayEmail(normalizedEmail) THEN "relay"
    ELSE "ok"

getDestinationEmailStatus(email) ==
  LET normalizedEmail == normalizeEmail(email) IN
    IF ~truthy(normalizedEmail) THEN "empty"
    ELSE IF isGeneratedAppleEmail(normalizedEmail) THEN "generated"
    ELSE IF isPrivateRelayEmail(normalizedEmail) THEN "relay"
    ELSE IF ~EMAIL_REGEX_test(normalizedEmail) THEN "invalid"
    ELSE "ok"

isValidDestinationEmail(email) == getDestinationEmailStatus(email) = "ok"

(***************************************************************************)
(* Categories: records [id, name, color, icon].  Their fields are never    *)
(* taken apart, so they are kept as whole strings.                         *)
(***************************************************************************)
DEFAULT_CATEGORIES ==
  <<[id |-> "all", name |-> "All", color |-> "#636E72", icon |-> "folder"],
    [id |-> "ideas", name |-> "Ideas", color |-> "#6C5CE7", icon |-> "lightbulb"],
    [id |-> "tasks", name |-> "Tasks", color |-> "#00B894", icon |-> "check"],
    [id |-> "notes", name |-> "Notes", color |-> "#0984E3", icon |-> "file"],
    [id |-> "reminders", name |-> "Reminders", color |-> "#FDCB6E", icon |-> "bell"]>>

\* a null entry of a parsed list, and a field whose typeof is not 'string'
NullCategory == [null |-> TRUE]

NOT_A_STRING == "<not a string>"

\* category && typeof category.id === 'string' && typeof category.name === 'string'
isIncoming(category) ==
  /\ category # NullCategory
  /\ category.id # NOT_A_STRING
  /\ category.name # NOT_A_STRING

\* defaultById.has(id)
defaultById_has(id) == \E i \in DOMAIN DEFAULT_CATEGORIES : DEFAULT_CATEGORIES[i].id = id

\* incoming.get(id): a Map built from pairs keeps the last pair of a key;
\* the result is <<>> when the key is absent and <<category>> otherwise
incoming_get(categories, id) ==
  LET at == {i \in DOMAIN categories : isIncoming(categories[i]) /\ categories[i].id = id}
  IN IF at = {} THEN <<>>
     ELSE <<categories[CHOOSE i \in at : \A j \in at : j <= i]>>

sanitizeCategories_defaults(categories) ==
  [i \in DOMAIN DEFAULT_CATEGORIES |->
     LET found == incoming_get(categories, DEFAULT_CATEGORIES[i].id)
     IN IF found # <<>> THEN found[1] ELSE DEFAULT_CATEGORIES[i]]

sanitizeCategories_custom(categories) ==
  SelectSeq(categories, LAMBDA category :
              category # NullCategory /\ ~defaultById_has(category.id))

\* a slip that puts the custom categories first
sanitizeCategories_customFirst(categories) ==
  sanitizeCategories_custom(categories) \o sanitizeCategories_defaults(categories)

sanitizeCategories(categories) ==
  sanitizeCategories_defaults(categories) \o sanitizeCategories_custom(categories)

(***************************************************************************)
(* User profile: records [username, displayName, email]                    *)
(***************************************************************************)
startsWith(s, prefix) ==
  /\ Len(s) >= Len(prefix)
  /\ SubSeq(s, 1, Len(prefix)) = prefix

\* a || b on optional strings
orElse(a, b) == IF truthy(a) THEN a ELSE b

APPLE_PREFIX == <<"a", "p", "p", "l", "e", "-">>

APPLE_USER == <<"a", "p", "p", "l", "e", "-", "u", "s", "e", "r">>

APPLE_USER_NAME == <<"A", "p", "p", "l", "e", " ", "U", "s", "e", "r">>

\* !name || name.toLowerCase().startsWith('apple-')
isGeneratedName(name) ==
  ~truthy(name) \/ startsWith(toLowerCase(name), APPLE_PREFIX)

\* a slip that keeps the profile as stored
sanitizeGeneratedAppleProfile_asStored(profile) == profile

sanitizeGeneratedAppleProfile(profile) ==
  IF ~isGeneratedAppleEmail(profile.email)
  THEN profile
  ELSE [email |-> <<>>,
        username |-> IF isGeneratedName(profile.username)
                     THEN APPLE_USER ELSE profile.username,
        displayName |-> IF isGeneratedName(profile.displayName)
                        THEN APPLE_USER_NAME ELSE profile.displayName]

\* user.user_metadata: full_name and given_name, when the backend stored them
full_name(sessionUser) ==
  IF "full_name" \in DOMAIN sessionUser THEN sessionUser.full_name ELSE <<>>

given_name(sessionUser) ==
  IF "given_name" \in DOMAIN sessionUser THEN sessionUser.given_name ELSE <<>>

\* the condition of the effect that initializes the profile, for a user
initializeProfileApplies(profile) ==
  ~truthy(profile.email) \/ isGeneratedAppleEmail(profile.email)

\* updatedProfile of the effect that initializes the profile
initializeProfile(sessionUser, profile) ==
  LET authEmailRaw == orElse(sessionUser.email, <<>>)
      authEmail == IF isValidDestinationEmail(authEmailRaw)
                   THEN normalizeEmail(authEmailRaw) ELSE <<>>
      emailNamePart == IF truthy(authEmail) THEN splitAtFirst(authEmail) ELSE <<>>
      displayName == orElse(full_name(sessionUser),
                       orElse(given_name(sessionUser),
                         orElse(emailNamePart, APPLE_USER_NAME)))
      username == orElse(emailNamePart, APPLE_USER)
      hasGeneratedDisplayName ==
        truthy(profile.displayName)
          /\ startsWith(toLowerCase(profile.displayName), APPLE_PREFIX)
      hasGeneratedUsername ==
        truthy(profile.username) /\ startsWith(toLowerCase(profile.username), APPLE_PREFIX)
      existingEmail == IF isGeneratedAppleEmail(profile.email) THEN <<>> ELSE profile.email
  IN [email |-> orElse(existingEmail, authEmail),
      username |-> IF ~truthy(profile.username) \/ hasGeneratedUsername
                   THEN username ELSE profile.username,
      displayName |-> IF ~truthy(profile.displayName) \/ hasGeneratedDisplayName
                      THEN displayName ELSE profile.displayName]

\* the condition of the effect on [emailAccounts]
profileFromAccountsApplies(profile, accounts) ==
  Len(accounts) > 0 /\ ~truthy(profile.email)

\* updatedProfile of the effect on [emailAccounts]
profileFromAccounts(profile, accounts) ==
  LET defaultEmail == accounts[1].email IN
    [email |-> defaultEmail,
     username |-> orElse(profile.username,
                    orElse(splitAtFirst(defaultEmail), <<"u", "s", "e", "r">>)),
     displayName |-> orElse(profile.displayName,
                       orElse(splitAtFirst(defaultEmail), <<"U", "s", "e", "r">>))]

(***************************************************************************)
(* Email accounts: records [id, email, alias, isDefault]                   *)
(***************************************************************************)
\* account.alias?.trim() || normalizedEmail.split('@')[0]
aliasOrLocalPart(alias, normalizedEmail) ==
  IF alias # NULL /\ trim(alias) # <<>> THEN trim(alias)
  ELSE splitAtFirst(normalizedEmail)

\* a slip that remembers the email as stored instead of the normalized one
RECURSIVE sanitizeLoop_rawSeen(_, _, _, _)
sanitizeLoop_rawSeen(accounts, i, seenEmails, sanitized) ==
  IF i > Len(accounts) THEN sanitized
  ELSE LET account == accounts[i]
           normalizedEmail == normalizeEmail(account.email)
       IN IF ~isValidDestinationEmail(normalizedEmail) \/ account.email \in seenEmails
          THEN sanitizeLoop_rawSeen(accounts, i + 1, seenEmails, sanitized)
          ELSE sanitizeLoop_rawSeen(accounts, i + 1, seenEmails \cup {account.email},
                 Append(sanitized,
                        [id |-> account.id,
                         email |-> normalizedEmail,
                         alias |-> aliasOrLocalPart(account.alias, normalizedEmail),
                         isDefault |-> FALSE]))

\* the for-loop of sanitizeEmailAccounts over the accounts from index i on
RECURSIVE sanitizeLoop(_, _, _, _)
sanitizeLoop(accounts, i, seenEmails, sanitized) ==
  IF i > Len(accounts) THEN sanitized
  ELSE LET account == accounts[i]
           normalizedEmail == normalizeEmail(account.email)
       IN IF ~isValidDestinationEmail(normalizedEmail) \/ normalizedEmail \in seenEmails
          THEN sanitizeLoop(accounts, i + 1, seenEmails, sanitized)
          ELSE sanitizeLoop(accounts, i + 1, seenEmails \cup {normalizedEmail},
                 Append(sanitized,
                        [id |-> account.id,
                         email |-> normalizedEmail,
                         alias |-> aliasOrLocalPart(account.alias, normalizedEmail),
                         isDefault |-> FALSE]))

\* a slip that numbers the default by the position in the unfiltered input
sanitizeEmailAccounts_defaultBeforeFilter(accounts) ==
  LET flagged == [index \in 1..Len(accounts) |->
                    [accounts[index] EXCEPT !.isDefault = (index = 1)]]
      kept == sanitizeLoop(flagged, 1, {}, <<>>)
  IN [index \in 1..Len(kept) |->
        [kept[index] EXCEPT
           !.isDefault = \E k \in 1..Len(flagged) :
                            /\ flagged[k].id = kept[index].id
                            /\ flagged[k].isDefault]]

sanitizeEmailAccounts(accounts) ==
  LET sanitized == sanitizeLoop(accounts, 1, {}, <<>>) IN
    [index \in 1..Len(sanitized) |-> [sanitized[index] EXCEPT !.isDefault = (index = 1)]]

(***************************************************************************)
(* Sample addresses                                                        *)
(***************************************************************************)
X_IO == <<"@", "x", ".", "i", "o">>

\* "me@x.io"
EmailMe == <<"m", "e">> \o X_IO

\* " Me@X.io " : the same inbox as typed by a user
EmailMeRaw == <<" ", "M", "e", "@", "X", ".", "i", "o", " ">>

\* "b@x.io"
EmailB == <<"b">> \o X_IO

\* "x@privaterelay.appleid.com"
EmailRelay == <<"x">> \o RELAY_SUFFIX

\* "a@mindtoss.local"
EmailGenerated == <<"a">> \o GENERATED_SUFFIX

\* "no"
EmailInvalid == <<"n", "o">>

\* what a user may type, or a stored list may hold, as an email
RawEmails == {NULL, EmailMe, EmailMeRaw, EmailB, EmailRelay, EmailGenerated, EmailInvalid}

\* the contents a text field for an email can have
TypedEmails == (RawEmails \ {NULL}) \cup {<<>>}

(***************************************************************************)
(* Optional values: <<>> is absent (null, a missing localStorage key),     *)
(* <<x>> is present                                                        *)
(***************************************************************************)
None == <<>>

Some(x) == <<x>>

(***************************************************************************)
(* State                                                                   *)
(***************************************************************************)
VARIABLES
  \* React state of App
  user,               \* None or Some([email |-> ...])
  authLoading,
  currentScreen,
  emailAccounts,
  selectedEmailIndex, \* 0-based, as in the source
  history,
  inputMode,
  textInput,
  isRecording,
  recordingDuration,
  capturedImage,      \* None or Some(data URL)
  capturedPhotoNote,
  isSending,
  \* refs
  mediaRecorder,      \* "none", "recording" or "inactive"
  mic,                \* the microphone: getUserMedia calls awaited and streams live
  audioChunks,        \* number of blobs in audioChunksRef.current
  \* localStorage
  lsEmailAccounts,    \* key 'emailAccounts'
  lsHistory,          \* key 'tossHistory'
  hasOnboarded,       \* key 'hasOnboarded' holds 'true'
  token,              \* key 'mindtossConvexSessionToken': the user it stands for
  \* profile, categories and theme: React state and localStorage
  userProfile,
  lsUserProfile,      \* key 'userProfile'
  categories,
  isDarkMode,
  lsCategories,       \* key 'categories'
  lsDarkMode,         \* key 'darkMode'
  lastPush,           \* payload of the latest saveRemoteAppState request sent
  pushErrors,         \* saveRemoteAppState calls that failed, not yet reported
  \* asynchronous calls of the client in progress
  load,               \* loadSavedData
  send,               \* sendToss
  overlap,            \* a call of sendToss made while another one reads its audio
  apiRequests,        \* POST /api/send-email requests issued by the app
  sendOutcome,        \* how the latest call of sendToss ended, or where it is
  \* backend and relay
  remote,             \* the user's remote-state record: None or Some(snapshot)
  relayLog,           \* destinations handed to the email relay
  clock,              \* Date.now()
  \* harnesses of the pure functions
  vIn, vOut, vOutNormalized, sIn, sOut, cIn, cOut,
  \* tables of the backend, its clock, and the latest HTTP response
  users,              \* rows [_id, email, passwordHash]
  sessions,           \* rows [token, userId, expiresAt]
  userStates,         \* rows [userId, state, updatedAt], in order of insertion
  now,                \* Date.now() of the backend
  response,           \* [route, status, body] of the latest request
  issued,             \* the session tokens ever issued: [token, userId]
  savedStates         \* what saveState stored, in order: [userId, state]

recorderVars == <<mediaRecorder, mic>>

accountVars == <<emailAccounts, selectedEmailIndex, lsEmailAccounts, hasOnboarded>>

historyVars == <<history, lsHistory>>

inputVars ==
  <<inputMode, textInput, isRecording, recordingDuration, capturedImage,
    capturedPhotoNote, recorderVars, audioChunks>>

sessionVars == <<user, authLoading, token>>

sendVars == <<isSending, send, overlap, apiRequests, sendOutcome>>

serverVars == <<remote, relayLog>>

profileVars == <<userProfile, lsUserProfile>>

settingsVars == <<categories, isDarkMode, lsCategories, lsDarkMode>>

pushVars == <<lastPush, pushErrors>>

harnessVars == <<vIn, vOut, vOutNormalized, sIn, sOut, cIn, cOut>>

backendVars ==
  <<users, sessions, userStates, now, response, issued, savedStates>>

vars ==
  <<accountVars, historyVars, inputVars, sessionVars, sendVars, serverVars,
    currentScreen, load, clock, profileVars, settingsVars, pushVars, harnessVars, backendVars>>

EmptyProfile == [username |-> <<>>, displayName |-> <<>>, email |-> <<>>]

\* bound on the number of Date.now() readings
MaxClock == 3

LoadIdle == [pc |-> "idle", resolvedEmails |-> <<>>]

\* a call of sendToss: where it stands, the values its closure holds, and the
\* answer on its way back
SendIdle ==
  [pc |-> "idle", targetEmail |-> <<>>, type |-> "text", content |-> <<>>,
   history |-> <<>>, emailAccounts |-> <<>>, userProfile |-> EmptyProfile,
   categories |-> <<>>, darkMode |-> FALSE, user |-> None,
   response |-> "none", relay |-> None]

\* no getUserMedia call awaited and no stream: "open" tells that the tracks of
\* the stream of mediaRecorderRef.current are live, "leaked" counts the live
\* streams that no reference of the component reaches
MicIdle == [pending |-> 0, open |-> FALSE, leaked |-> 0]

\* useState initial values and useRef initial values of App
InitComponent ==
  /\ user = None
  /\ authLoading = TRUE
  /\ currentScreen = "auth"
  /\ emailAccounts = <<>>
  /\ selectedEmailIndex = 0
  /\ history = <<>>
  /\ inputMode = "text"
  /\ textInput = <<>>
  /\ isRecording = FALSE
  /\ recordingDuration = 0
  /\ capturedImage = None
  /\ capturedPhotoNote = <<>>
  /\ isSending = FALSE
  /\ mediaRecorder = "none"
  /\ mic = MicIdle
  /\ audioChunks = 0
  /\ load = LoadIdle
  /\ send = SendIdle
  /\ overlap = SendIdle
  /\ userProfile = EmptyProfile
  /\ categories = DEFAULT_CATEGORIES
  /\ isDarkMode = FALSE

\* a fresh installation: empty localStorage, no remote record, nothing sent
InitWorld ==
  /\ lsEmailAccounts = None
  /\ lsHistory = None
  /\ hasOnboarded = FALSE
  /\ token = None
  /\ lsUserProfile = None
  /\ lsCategories = None
  /\ lsDarkMode = None
  /\ lastPush = None
  /\ pushErrors = 0
  /\ apiRequests = 0
  /\ sendOutcome = "none"
  /\ remote = None
  /\ relayLog = {}
  /\ clock = 1

InitHarness ==
  /\ vIn = NULL
  /\ vOut = "pending"
  /\ vOutNormalized = "pending"
  /\ sIn = <<>>
  /\ sOut = <<>>
  /\ cIn = <<>>
  /\ cOut = None

\* a fresh deployment: empty tables, no request answered yet
NoResponse == [route |-> "none", status |-> 0, body |-> [none |-> TRUE]]

InitBackend ==
  /\ users = {}
  /\ sessions = {}
  /\ userStates = <<>>
  /\ now = 0
  /\ response = NoResponse
  /\ issued = {}
  /\ savedStates = <<>>

Init == InitComponent /\ InitWorld /\ InitHarness /\ InitBackend

(***************************************************************************)
(* Remote state sync                                                       *)
(***************************************************************************)
\* the remote-state record and the payload of saveRemoteAppState
Snapshot(accounts, items, profile, cats, dark) ==
  [emailAccounts |-> accounts, history |-> items, userProfile |-> profile,
   categories |-> cats, darkMode |-> dark]

\* the values that a render of App holds and that the functions created by
\* this render close over
render == Snapshot(emailAccounts, history, userProfile, categories, isDarkMode)

\* the user and the stored token that syncRemoteState and saveRemoteAppState
\* ask for
signedIn == user # None /\ token # None

\* syncRemoteState -> saveRemoteAppState: the requests sent, none without a
\* user or a stored token, else one with the closure's values under the
\* overrides
syncRemoteState(hasUser, closure, overrides) ==
  IF ~hasUser THEN <<>> ELSE <<overrides @@ closure>>

\* saveEmailAccounts: the list stored under 'emailAccounts' and the requests
saveEmailAccounts(hasUser, closure, accounts) ==
  LET sanitizedAccounts == sanitizeEmailAccounts(accounts) IN
    [stored |-> sanitizedAccounts,
     requests |-> syncRemoteState(hasUser, closure, [emailAccounts |-> sanitizedAccounts])]

\* saveHistory: the requests; items is stored under 'tossHistory'
saveHistory(hasUser, closure, items) ==
  syncRemoteState(hasUser, closure, [history |-> items])

\* saveUserProfile: the requests; profile is stored under 'userProfile'
saveUserProfile(hasUser, closure, profile) ==
  syncRemoteState(hasUser, closure, [userProfile |-> profile])

\* bound on the failed pushes whose report is outstanding
MaxPushErrors == 2

\* The requests of one step are fire-and-forget: they reach the backend in
\* the order sent and the last one stays (pushed), or each of them fails
\* (network error, refused token, server error).
saveRemoteAppState(requests, pushed) ==
  /\ lastPush' = IF requests = <<>> THEN lastPush ELSE Some(requests[Len(requests)])
  /\ remote' = IF requests = <<>> \/ ~pushed THEN remote
               ELSE Some(requests[Len(requests)])

\* the requests of a step, a failed one reporting it later (syncErrorLogged)
sendRequests(requests, pushed) ==
  /\ pushed \/ pushErrors + Len(requests) <= MaxPushErrors
  /\ pushErrors' = IF pushed THEN pushErrors ELSE pushErrors + Len(requests)
  /\ saveRemoteAppState(requests, pushed)

\* a slip that answers a failed push by putting the theme back
syncErrorLogged_undo ==
  /\ pushErrors > 0
  /\ pushErrors' = pushErrors - 1
  /\ isDarkMode' = FALSE
  /\ lsDarkMode' = Some(FALSE)
  /\ UNCHANGED <<lastPush, accountVars, historyVars, inputVars, sessionVars,
                 sendVars, serverVars, currentScreen, load, clock, profileVars,
                 categories, lsCategories, harnessVars, backendVars>>

\* the continuation of syncRemoteState for a saveRemoteAppState call that
\* ended with an error: console.error
syncErrorLogged ==
  /\ pushErrors > 0
  /\ pushErrors' = pushErrors - 1
  /\ UNCHANGED <<lastPush, accountVars, historyVars, inputVars, sessionVars,
                 sendVars, serverVars, currentScreen, load, clock, profileVars,
                 settingsVars, harnessVars, backendVars>>

\* a slip that leaves the effect on [emailAccounts] out
accountsEffect_noEffect(hasUser, r) ==
  [userProfile |-> r.userProfile, saved |-> FALSE, requests |-> <<>>]

\* useEffect on [emailAccounts], run after a render with the values r that
\* follows a call of setEmailAccounts: the profile it leaves, whether it saved
\* it, and the requests
accountsEffect(hasUser, r) ==
  IF profileFromAccountsApplies(r.userProfile, r.emailAccounts)
  THEN [userProfile |-> profileFromAccounts(r.userProfile, r.emailAccounts),
        saved |-> TRUE,
        requests |-> saveUserProfile(hasUser, r,
                       profileFromAccounts(r.userProfile, r.emailAccounts))]
  ELSE [userProfile |-> r.userProfile, saved |-> FALSE, requests |-> <<>>]

\* useEffect on [emailAccounts, selectedEmailIndex]
clampIndex(index, accounts) ==
  IF index >= Len(accounts)
  THEN IF Len(accounts) = 0 THEN 0 ELSE Len(accounts) - 1
  ELSE index

\* A handler that called setEmailAccounts(accounts) and sent the requests
\* sent, followed by the effects of the render it causes.  The report of a
\* failed request, which only logs, is taken within the step.
accountsChanged(accounts, sent, pushed) ==
  \E effect \in {accountsEffect(signedIn, [render EXCEPT !.emailAccounts = accounts])} :
    /\ emailAccounts' = accounts
    /\ selectedEmailIndex' = clampIndex(selectedEmailIndex, accounts)
    /\ userProfile' = effect.userProfile
    /\ lsUserProfile' = IF effect.saved THEN Some(effect.userProfile) ELSE lsUserProfile
    /\ saveRemoteAppState(sent \o effect.requests, pushed)
    /\ UNCHANGED pushErrors

(***************************************************************************)
(* Session                                                                 *)
(***************************************************************************)
\* emails an authenticated identity can carry
SessionEmails == {EmailMe, EmailGenerated}

SessionUsers == {[email |-> e] : e \in SessionEmails}

\* the account created from the session email
autoAccount(sessionEmail) ==
  LET normalizedSessionEmail == normalizeEmail(sessionEmail) IN
    [id |-> clock,
     email |-> normalizedSessionEmail,
     alias |-> splitAtFirst(normalizedSessionEmail),
     isDefault |-> TRUE]

\* the branch "canAutoUseSessionEmail && hasOnboarded !== 'true'" with no
\* saved account
autoSetupApplies(sessionUser) ==
  /\ isValidDestinationEmail(sessionUser.email)
  /\ ~hasOnboarded
  /\ (lsEmailAccounts = None \/ Len(lsEmailAccounts[1]) = 0)

\* The session handlers followed by the effects they trigger, under the
\* batching of React 18: the handler's state updates give one render, with
\* the values r1, whose effects run in the order of their declaration.
\*   - useEffect([user]) calls loadSavedData, whose synchronous part reads
\*     localStorage as the handler left it, sets what it finds (loaded) and
\*     then awaits the remote state;
\*   - the effect that initializes the profile runs with the profile of r1;
\*   - the effect on [emailAccounts] runs with r1 when the handler set the
\*     accounts, and again with the next render r2 when loadSavedData did.
\* Of the calls of setUserProfile in one batch the last one stays.
\* screenAuto and screenElse are the screens shown at the end, with and
\* without an automatically created account.
sessionEstablished(sessionUser, screenAuto, screenElse, pushed) ==
  LET noEffect == [userProfile |-> EmptyProfile, saved |-> FALSE, requests |-> <<>>] IN
  \E auto \in {autoSetupApplies(sessionUser)} :
  \E saved \in {IF auto THEN Some(<<autoAccount(sessionUser.email)>>) ELSE lsEmailAccounts} :
  \E localEmails \in {IF saved = None THEN <<>> ELSE sanitizeEmailAccounts(saved[1])} :
  \E r1 \in {[render EXCEPT !.emailAccounts =
                IF auto THEN <<autoAccount(sessionUser.email)>> ELSE emailAccounts]} :
  \E loaded \in
       {Snapshot(IF saved = None THEN r1.emailAccounts ELSE localEmails,
                 IF lsHistory = None THEN history ELSE lsHistory[1],
                 IF lsUserProfile = None THEN userProfile
                 ELSE sanitizeGeneratedAppleProfile(lsUserProfile[1]),
                 IF lsCategories = None THEN categories
                 ELSE sanitizeCategories(lsCategories[1]),
                 IF lsDarkMode = None THEN isDarkMode ELSE lsDarkMode[1])} :
  \E init \in
       {IF initializeProfileApplies(r1.userProfile)
        THEN LET updatedProfile == initializeProfile(sessionUser, r1.userProfile) IN
               [userProfile |-> updatedProfile, saved |-> TRUE,
                requests |-> saveUserProfile(TRUE, r1, updatedProfile)]
        ELSE noEffect} :
  \E first \in {IF auto THEN accountsEffect(TRUE, r1) ELSE noEffect} :
  \E r2 \in {[loaded EXCEPT !.userProfile = IF first.saved THEN first.userProfile
                                            ELSE IF init.saved THEN init.userProfile
                                            ELSE loaded.userProfile]} :
  \E second \in {IF saved # None THEN accountsEffect(TRUE, r2) ELSE noEffect} :
     /\ auto => clock < MaxClock
     /\ load.pc = "idle"
     /\ user' = Some(sessionUser)
     /\ clock' = IF auto THEN clock + 1 ELSE clock
     /\ hasOnboarded' = (hasOnboarded \/ auto)
     /\ currentScreen' = IF auto THEN screenAuto ELSE screenElse
     /\ emailAccounts' = r2.emailAccounts
     /\ lsEmailAccounts' = IF saved = None THEN None ELSE Some(localEmails)
     /\ selectedEmailIndex' = clampIndex(selectedEmailIndex, r2.emailAccounts)
     /\ history' = r2.history
     /\ categories' = r2.categories
     /\ lsCategories' = IF lsCategories = None THEN None ELSE Some(r2.categories)
     /\ isDarkMode' = r2.darkMode
     /\ userProfile' = IF second.saved THEN second.userProfile ELSE r2.userProfile
     /\ lsUserProfile' = IF second.saved THEN Some(second.userProfile)
                         ELSE IF first.saved THEN Some(first.userProfile)
                         ELSE IF init.saved THEN Some(init.userProfile)
                         ELSE lsUserProfile
     /\ sendRequests(init.requests \o first.requests \o second.requests, pushed)
     /\ load' = [pc |-> "awaiting", resolvedEmails |-> localEmails]

\* convex.auth.getSession().then(...) at mount: fetchSession answers with the
\* user of the stored token, or with no session (no token, or a token the
\* backend answers with status 401, which fetchSession then removes)
checkSession(valid, pushed) ==
  /\ authLoading
  /\ authLoading' = FALSE
  /\ IF token # None /\ valid
     THEN /\ sessionEstablished(token[1], "main",
                                IF hasOnboarded THEN "main" ELSE "onboarding", pushed)
          /\ UNCHANGED token
     ELSE /\ token' = None
          /\ user' = None
          /\ currentScreen' = "auth"
          /\ UNCHANGED <<accountVars, history, load, clock, profileVars, categories,
                         isDarkMode, lsCategories, remote, pushVars>>
  /\ UNCHANGED <<lsHistory, lsDarkMode, inputVars, sendVars, relayLog, harnessVars, backendVars>>

\* signInWithEmail / signUpWithEmail / signInWithApple succeed: completeSignIn
\* stores the token and emits SIGNED_IN to the listener of App, then AuthScreen
\* calls onAuthSuccess, whose setCurrentScreen('onboarding') comes last
signIn(sessionUser, pushed) ==
  /\ ~authLoading
  /\ currentScreen = "auth"
  /\ token' = Some(sessionUser)
  /\ sessionEstablished(sessionUser, "onboarding", "onboarding", pushed)
  /\ UNCHANGED <<authLoading, lsHistory, lsDarkMode, inputVars, sendVars, relayLog,
                 harnessVars, backendVars>>

\* loadSavedData after "await loadRemoteAppState()": the answer is the remote
\* record, or nothing (no record, no token, a refused or failed request, a
\* record that does not parse).  With a record the five values are set and
\* stored, and the effect on [emailAccounts] follows the render.
loadRemoteAnswer(answered, pushed) ==
  /\ load.pc = "awaiting"
  /\ load' = LoadIdle
  /\ \E remoteState \in {IF answered /\ token # None THEN remote ELSE None} :
     \E remoteEmails \in {IF remoteState = None THEN <<>>
                          ELSE sanitizeEmailAccounts(remoteState[1].emailAccounts)} :
     \E resolvedEmails \in {IF remoteState = None THEN load.resolvedEmails
                            ELSE remoteEmails} :
       /\ IF remoteState = None
          THEN UNCHANGED <<emailAccounts, lsEmailAccounts, selectedEmailIndex, historyVars,
                           profileVars, settingsVars, remote, pushVars>>
          ELSE \E r \in {Snapshot(remoteEmails, remoteState[1].history,
                                  sanitizeGeneratedAppleProfile(remoteState[1].userProfile),
                                  sanitizeCategories(remoteState[1].categories),
                                  remoteState[1].darkMode)} :
               \E effect \in {accountsEffect(signedIn, r)} :
                  /\ emailAccounts' = r.emailAccounts
                  /\ lsEmailAccounts' = Some(r.emailAccounts)
                  /\ selectedEmailIndex' = clampIndex(selectedEmailIndex, r.emailAccounts)
                  /\ history' = r.history
                  /\ lsHistory' = Some(r.history)
                  /\ categories' = r.categories
                  /\ lsCategories' = Some(r.categories)
                  /\ isDarkMode' = r.darkMode
                  /\ lsDarkMode' = Some(r.darkMode)
                  /\ userProfile' = effect.userProfile
                  /\ lsUserProfile' = Some(effect.userProfile)
                  /\ sendRequests(effect.requests, pushed)
       /\ IF Len(resolvedEmails) = 0
          THEN hasOnboarded' = FALSE /\ currentScreen' = "onboarding"
          ELSE UNCHANGED <<hasOnboarded, currentScreen>>
  /\ UNCHANGED <<inputVars, sessionVars, sendVars, relayLog, clock, harnessVars, backendVars>>

\* handleLogout, confirmed: signOut removes the token and emits SIGNED_OUT
handleLogout ==
  /\ currentScreen = "settings"
  /\ token' = None
  /\ user' = None
  /\ currentScreen' = "auth"
  /\ lsEmailAccounts' = None
  /\ lsHistory' = None
  /\ hasOnboarded' = FALSE
  /\ lsUserProfile' = None
  /\ emailAccounts' = <<>>
  /\ history' = <<>>
  /\ userProfile' = EmptyProfile
  /\ selectedEmailIndex' = 0
  /\ UNCHANGED <<authLoading, inputVars, sendVars, serverVars, load, clock, settingsVars,
                 pushVars, harnessVars, backendVars>>

\* the dark mode switch of the settings screen
toggleDarkMode(pushed) ==
  LET newValue == ~isDarkMode IN
    /\ currentScreen = "settings"
    /\ isDarkMode' = newValue
    /\ lsDarkMode' = Some(newValue)
    /\ sendRequests(syncRemoteState(signedIn, render, [darkMode |-> newValue]), pushed)
    /\ UNCHANGED <<accountVars, historyVars, inputVars, sessionVars, sendVars, relayLog,
                   currentScreen, load, clock, profileVars, categories, lsCategories,
                   harnessVars, backendVars>>

\* updateUserProfile with the form's fields editUsername and editDisplayName
updateUserProfile(editUsername, editDisplayName, pushed) ==
  LET updatedProfile ==
        [username |-> trim(editUsername),
         displayName |-> orElse(trim(editDisplayName), trim(editUsername)),
         email |-> orElse(userProfile.email,
                     IF Len(emailAccounts) > 0 THEN emailAccounts[1].email ELSE <<>>)]
  IN /\ currentScreen = "profile"
     /\ IF ~truthy(trim(editUsername))
        THEN UNCHANGED <<profileVars, remote, pushVars>>
        ELSE /\ userProfile' = updatedProfile
             /\ lsUserProfile' = Some(updatedProfile)
             /\ sendRequests(saveUserProfile(signedIn, render, updatedProfile), pushed)
     /\ UNCHANGED <<accountVars, historyVars, inputVars, sessionVars, sendVars, relayLog,
                    currentScreen, load, clock, settingsVars, harnessVars, backendVars>>

\* the header buttons of the main, settings and history screens
navigate(screen) ==
  /\ currentScreen \in {"main", "settings", "history"}
  /\ currentScreen # screen
  /\ currentScreen' = screen
  /\ UNCHANGED <<accountVars, historyVars, inputVars, sessionVars, sendVars,
                 serverVars, load, clock, profileVars, settingsVars, pushVars, harnessVars, backendVars>>

\* the profile row of the settings screen and the back button of the profile
\* screen
openProfile ==
  /\ currentScreen = "settings"
  /\ currentScreen' = "profile"
  /\ UNCHANGED <<accountVars, historyVars, inputVars, sessionVars, sendVars,
                 serverVars, load, clock, profileVars, settingsVars, pushVars,
                 harnessVars, backendVars>>

closeProfile ==
  /\ currentScreen = "profile"
  /\ currentScreen' = "settings"
  /\ UNCHANGED <<accountVars, historyVars, inputVars, sessionVars, sendVars,
                 serverVars, load, clock, profileVars, settingsVars, pushVars,
                 harnessVars, backendVars>>

\* the inbox selector of the main screen
selectNextInbox ==
  /\ currentScreen = "main"
  /\ Len(emailAccounts) > 1
  /\ selectedEmailIndex' = (selectedEmailIndex + 1) % Len(emailAccounts)
  /\ UNCHANGED <<emailAccounts, lsEmailAccounts, hasOnboarded, historyVars, inputVars,
                 sessionVars, sendVars, serverVars, currentScreen, load, clock,
                 profileVars, settingsVars, pushVars, harnessVars, backendVars>>

(***************************************************************************)
(* Email account handlers                                                  *)
(***************************************************************************)
\* addEmailAccount with the modal's fields newEmail and newAlias
addEmailAccount(newEmail, newAlias, pushed) ==
  LET normalizedEmail == normalizeEmail(newEmail)
      emailStatus == getDestinationEmailStatus(normalizedEmail)
      newAccount == [id |-> clock,
                     email |-> normalizedEmail,
                     alias |-> IF trim(newAlias) # <<>> THEN trim(newAlias)
                               ELSE splitAtFirst(normalizedEmail),
                     isDefault |-> (Len(emailAccounts) = 0)]
      updated == sanitizeEmailAccounts(Append(emailAccounts, newAccount))
  IN /\ currentScreen = "settings"
     /\ clock < MaxClock
     /\ IF emailStatus # "ok"
        THEN UNCHANGED <<accountVars, profileVars, remote, pushVars, clock>>
        ELSE /\ clock' = clock + 1
             /\ \E save \in {saveEmailAccounts(signedIn, render, updated)} :
                  /\ lsEmailAccounts' = Some(save.stored)
                  /\ accountsChanged(updated, save.requests, pushed)
             /\ UNCHANGED hasOnboarded
     /\ UNCHANGED <<historyVars, inputVars, sessionVars, sendVars, relayLog,
                    currentScreen, load, settingsVars, harnessVars, backendVars>>

\* removeEmailAccount, confirmed
removeEmailAccount(id, pushed) ==
  LET updated == sanitizeEmailAccounts(SelectSeq(emailAccounts, LAMBDA e : e.id # id)) IN
    /\ currentScreen = "settings"
    /\ \E k \in 1..Len(emailAccounts) : emailAccounts[k].id = id
    /\ \E save \in {saveEmailAccounts(signedIn, render, updated)} :
         /\ lsEmailAccounts' = Some(save.stored)
         /\ accountsChanged(updated, save.requests, pushed)
    /\ UNCHANGED <<hasOnboarded, historyVars, inputVars, sessionVars, sendVars, relayLog,
                   currentScreen, load, clock, settingsVars, harnessVars, backendVars>>

\* the last onboarding step's button, with newEmail as typed (or as filled in
\* from the session) and detectedEmail derived from the user
onboardingGetStarted(newEmail, pushed) ==
  LET detectedEmail == IF user # None /\ truthy(user[1].email)
                          /\ isValidDestinationEmail(user[1].email)
                       THEN normalizeEmail(user[1].email) ELSE <<>>
      emailToUse == normalizeEmail(IF truthy(newEmail) THEN newEmail ELSE detectedEmail)
      emailStatus == getDestinationEmailStatus(emailToUse)
      newAccount == [id |-> clock,
                     email |-> emailToUse,
                     alias |-> splitAtFirst(emailToUse),
                     isDefault |-> TRUE]
      sanitizedAccounts == sanitizeEmailAccounts(<<newAccount>>)
  IN /\ currentScreen = "onboarding"
     /\ clock < MaxClock
     /\ IF emailStatus = "ok"
        THEN /\ clock' = clock + 1
             /\ \E save \in {saveEmailAccounts(signedIn, render, sanitizedAccounts)} :
                  /\ lsEmailAccounts' = Some(save.stored)
                  /\ accountsChanged(sanitizedAccounts, save.requests, pushed)
             /\ hasOnboarded' = TRUE
             /\ currentScreen' = "main"
        ELSE UNCHANGED <<accountVars, profileVars, remote, pushVars, clock, currentScreen>>
     /\ UNCHANGED <<historyVars, inputVars, sessionVars, sendVars, relayLog, load,
                    settingsVars, harnessVars, backendVars>>

(***************************************************************************)
(* Capture inputs of the main screen                                       *)
(***************************************************************************)
\* bound on the seconds counted by the recording timer
MaxDuration == 1

Texts == {<<>>, <<" ">>, <<" ", "m">>}

PhotoNotes == {<<>>, <<"n">>}

IMAGE == "data:image/png;base64,AAAA"

\* the mode tabs
switchMode(mode) ==
  /\ currentScreen = "main"
  /\ inputMode # mode
  /\ inputMode' = mode
  /\ UNCHANGED <<textInput, isRecording, recordingDuration, capturedImage,
                 capturedPhotoNote, recorderVars, audioChunks>>
  /\ UNCHANGED <<accountVars, historyVars, sessionVars, sendVars, serverVars,
                 currentScreen, load, clock, profileVars, settingsVars, pushVars, harnessVars, backendVars>>

\* onChange of the text area
setTextInput(text) ==
  /\ currentScreen = "main"
  /\ inputMode = "text"
  /\ textInput # text
  /\ textInput' = text
  /\ UNCHANGED <<inputMode, isRecording, recordingDuration, capturedImage,
                 capturedPhotoNote, recorderVars, audioChunks>>
  /\ UNCHANGED <<accountVars, historyVars, sessionVars, sendVars, serverVars,
                 currentScreen, load, clock, profileVars, settingsVars, pushVars, harnessVars, backendVars>>

\* startRecording after "await getUserMedia": the recorder made for the new
\* stream replaces the one of the reference, whose stream stays as it is
recorderStarted ==
  /\ mediaRecorder' = "recording"
  /\ mic' = [mic EXCEPT !.open = TRUE,
                        !.leaked = IF mic.open THEN mic.leaked + 1 ELSE mic.leaked]

\* "mediaRecorderRef.current.stop()" and the stop of the tracks of its stream
recorderStopped ==
  /\ mediaRecorder' = "inactive"
  /\ mic' = [mic EXCEPT !.open = FALSE]

\* startRecording, the microphone granted (a refused microphone changes
\* nothing)
startRecording ==
  /\ currentScreen = "main"
  /\ inputMode = "voice"
  /\ ~isRecording
  /\ mic.pending = 0
  /\ recorderStarted
  /\ audioChunks' = 0
  /\ recordingDuration' = 0
  /\ isRecording' = TRUE
  /\ UNCHANGED <<inputMode, textInput, capturedImage, capturedPhotoNote>>
  /\ UNCHANGED <<accountVars, historyVars, sessionVars, sendVars, serverVars,
                 currentScreen, load, clock, profileVars, settingsVars, pushVars, harnessVars, backendVars>>

\* bound on the getUserMedia calls awaited and the streams left live
MaxStreams == 2

\* startRecording from the record button, up to "await getUserMedia": the
\* button calls it whenever isRecording is false
startRecordingCalled ==
  /\ currentScreen = "main"
  /\ inputMode = "voice"
  /\ ~isRecording
  /\ mic.pending + mic.leaked < MaxStreams
  /\ mic' = [mic EXCEPT !.pending = mic.pending + 1]
  /\ UNCHANGED <<inputMode, textInput, isRecording, recordingDuration, capturedImage,
                 capturedPhotoNote, mediaRecorder, audioChunks>>
  /\ UNCHANGED <<accountVars, historyVars, sessionVars, sendVars, serverVars,
                 currentScreen, load, clock, profileVars, settingsVars, pushVars,
                 harnessVars, backendVars>>

\* startRecording after "await getUserMedia", the microphone granted
startRecordingGranted ==
  /\ mic.pending > 0
  /\ mediaRecorder' = "recording"
  /\ mic' = [pending |-> mic.pending - 1, open |-> TRUE,
             leaked |-> IF mic.open THEN mic.leaked + 1 ELSE mic.leaked]
  /\ audioChunks' = 0
  /\ recordingDuration' = 0
  /\ isRecording' = TRUE
  /\ UNCHANGED <<inputMode, textInput, capturedImage, capturedPhotoNote>>
  /\ UNCHANGED <<accountVars, historyVars, sessionVars, sendVars, serverVars,
                 currentScreen, load, clock, profileVars, settingsVars, pushVars,
                 harnessVars, backendVars>>

\* getUserMedia rejects: the catch block of startRecording
startRecordingRefused ==
  /\ mic.pending > 0
  /\ mic' = [mic EXCEPT !.pending = mic.pending - 1]
  /\ UNCHANGED <<inputMode, textInput, isRecording, recordingDuration, capturedImage,
                 capturedPhotoNote, mediaRecorder, audioChunks>>
  /\ UNCHANGED <<accountVars, historyVars, sessionVars, sendVars, serverVars,
                 currentScreen, load, clock, profileVars, settingsVars, pushVars,
                 harnessVars, backendVars>>

\* the one-second interval of the recording timer effect
recordingTick ==
  /\ isRecording
  /\ recordingDuration < MaxDuration
  /\ recordingDuration' = recordingDuration + 1
  /\ UNCHANGED <<inputMode, textInput, isRecording, capturedImage, capturedPhotoNote,
                 recorderVars, audioChunks>>
  /\ UNCHANGED <<accountVars, historyVars, sessionVars, sendVars, serverVars,
                 currentScreen, load, clock, profileVars, settingsVars, pushVars, harnessVars, backendVars>>

\* stopRecording from the record button: the recorder delivers its data as
\* one blob when it stops
stopRecording ==
  /\ currentScreen = "main"
  /\ inputMode = "voice"
  /\ isRecording
  /\ mediaRecorder = "recording"
  /\ recorderStopped
  /\ audioChunks' = audioChunks + 1
  /\ isRecording' = FALSE
  /\ UNCHANGED <<inputMode, textInput, recordingDuration, capturedImage,
                 capturedPhotoNote>>
  /\ UNCHANGED <<accountVars, historyVars, sessionVars, sendVars, serverVars,
                 currentScreen, load, clock, profileVars, settingsVars, pushVars, harnessVars, backendVars>>

\* the "Clear Recording" button
clearRecording ==
  /\ currentScreen = "main"
  /\ inputMode = "voice"
  /\ recordingDuration > 0
  /\ ~isRecording
  /\ audioChunks' = 0
  /\ recordingDuration' = 0
  /\ UNCHANGED <<inputMode, textInput, isRecording, capturedImage, capturedPhotoNote,
                 recorderVars>>
  /\ UNCHANGED <<accountVars, historyVars, sessionVars, sendVars, serverVars,
                 currentScreen, load, clock, profileVars, settingsVars, pushVars, harnessVars, backendVars>>

\* takePhoto / chooseFromLibrary / handleImageSelect deliver a data URL
setCapturedImage(image) ==
  /\ currentScreen = "main"
  /\ inputMode = "photo"
  /\ capturedImage = None
  /\ capturedImage' = Some(image)
  /\ UNCHANGED <<inputMode, textInput, isRecording, recordingDuration,
                 capturedPhotoNote, recorderVars, audioChunks>>
  /\ UNCHANGED <<accountVars, historyVars, sessionVars, sendVars, serverVars,
                 currentScreen, load, clock, profileVars, settingsVars, pushVars, harnessVars, backendVars>>

\* the remove button of the image preview
removeImage ==
  /\ currentScreen = "main"
  /\ inputMode = "photo"
  /\ capturedImage # None
  /\ capturedImage' = None
  /\ capturedPhotoNote' = <<>>
  /\ UNCHANGED <<inputMode, textInput, isRecording, recordingDuration, recorderVars,
                 audioChunks>>
  /\ UNCHANGED <<accountVars, historyVars, sessionVars, sendVars, serverVars,
                 currentScreen, load, clock, profileVars, settingsVars, pushVars, harnessVars, backendVars>>

\* onChange of the note field under the image preview
setCapturedPhotoNote(note) ==
  /\ currentScreen = "main"
  /\ inputMode = "photo"
  /\ capturedImage # None
  /\ capturedPhotoNote # note
  /\ capturedPhotoNote' = note
  /\ UNCHANGED <<inputMode, textInput, isRecording, recordingDuration, capturedImage,
                 recorderVars, audioChunks>>
  /\ UNCHANGED <<accountVars, historyVars, sessionVars, sendVars, serverVars,
                 currentScreen, load, clock, profileVars, settingsVars, pushVars, harnessVars, backendVars>>

\* the trash button of the history screen, confirmed
clearHistory(pushed) ==
  /\ currentScreen = "history"
  /\ history' = <<>>
  /\ lsHistory' = Some(<<>>)
  /\ sendRequests(saveHistory(signedIn, render, <<>>), pushed)
  /\ UNCHANGED <<accountVars, inputVars, sessionVars, sendVars, relayLog,
                 currentScreen, load, clock, profileVars, settingsVars, harnessVars, backendVars>>

(***************************************************************************)
(* Sending                                                                 *)
(***************************************************************************)
HISTORY_LIMIT == 100

\* bound on the send requests of a run
MaxRequests == 1

\* a slip that never truncates
Take_all(seq, n) == seq

\* seq.slice(0, n)
Take(seq, n) == SubSeq(seq, 1, IF Len(seq) < n THEN Len(seq) ELSE n)

\* formatDuration: minutes, ':' and the seconds padded to two digits
formatDuration(seconds) ==
  LET mins == seconds \div 60
      secs == seconds % 60
  IN <<ToString(mins), ":">>
       \o (IF secs < 10 THEN <<"0", ToString(secs)>> ELSE <<ToString(secs)>>)

voiceMemoContent(seconds) == <<"Voice memo (">> \o formatDuration(seconds) \o <<")">>

PHOTO_CAPTURE == <<"Photo capture">>

\* emailAccounts[selectedEmailIndex]?.email
selectedEmail ==
  IF selectedEmailIndex < Len(emailAccounts)
  THEN emailAccounts[selectedEmailIndex + 1].email
  ELSE NULL

\* a slip that lets every destination through
getSendReadiness_anyEmail ==
  LET targetEmail == normalizeEmail(selectedEmail)
      hasContent == CASE inputMode = "text" -> Len(trim(textInput)) > 0
                      [] inputMode = "voice" -> isRecording \/ recordingDuration > 0
                      [] OTHER -> capturedImage # None
  IN [targetEmail |-> targetEmail, hasValidEmail |-> TRUE,
      hasContent |-> hasContent, canSend |-> hasContent]

getSendReadiness ==
  LET targetEmail == normalizeEmail(selectedEmail)
      emailStatus == getDestinationEmailStatus(targetEmail)
      hasValidEmail == emailStatus = "ok"
      hasContent == CASE inputMode = "text" -> Len(trim(textInput)) > 0
                      [] inputMode = "voice" -> isRecording \/ recordingDuration > 0
                      [] OTHER -> capturedImage # None
  IN [targetEmail |-> targetEmail, hasValidEmail |-> hasValidEmail,
      hasContent |-> hasContent, canSend |-> hasValidEmail /\ hasContent]

\* the content sendToss computes for the mode of its closure
tossContent ==
  CASE inputMode = "text" -> textInput
    [] inputMode = "voice" -> voiceMemoContent(recordingDuration)
    [] OTHER -> IF truthy(capturedPhotoNote) THEN capturedPhotoNote ELSE PHOTO_CAPTURE

\* the closure of the call, entered at stage pc
sendCall(pc, targetEmail) ==
  [pc |-> pc, targetEmail |-> targetEmail, type |-> inputMode,
   content |-> tossContent, history |-> history, emailAccounts |-> emailAccounts,
   userProfile |-> userProfile, categories |-> categories, darkMode |-> isDarkMode,
   user |-> user, response |-> "none", relay |-> None]

\* the values of the render in which the call of sendToss in progress was made
sendClosure ==
  Snapshot(send.emailAccounts, send.history, send.userProfile, send.categories,
           send.darkMode)

\* sendToss from "setIsSending(true)" to the request of sendTossEmail
dispatch(call) ==
  /\ isSending' = TRUE
  /\ apiRequests' = apiRequests + 1
  /\ send' = [call EXCEPT !.pc = "awaiting"]
  /\ sendOutcome' = "dispatched"

\* a slip that drops the content checks of sendToss
contentMissing_never(readiness) == FALSE

\* the returns sendToss takes for lack of content before "setIsSending(true)":
\* after getSendReadiness, in the branch of the mode, and when
\* stopRecordingAndGetData finds neither a running recorder nor recorded data
contentMissing(readiness) ==
  \/ ~readiness.hasContent
  \/ inputMode = "text" /\ Len(trim(textInput)) = 0
  \/ inputMode = "voice" /\ ~isRecording /\ recordingDuration = 0
  \/ inputMode = "voice" /\ (mediaRecorder = "none" \/ ~isRecording) /\ audioChunks = 0
  \/ inputMode = "photo" /\ capturedImage = None

\* sendToss up to its first await, called from the main screen.  viaButton:
\* the call comes from the send button, which is disabled while isSending or
\* while getSendReadiness().canSend is false; otherwise the handler runs
\* although the button is disabled.  One call is followed at a time, and maxRequests bounds
\* the requests of a run.
sendToss(viaButton, maxRequests) ==
  \E readiness \in {getSendReadiness} :
  \E call \in {sendCall("idle", readiness.targetEmail)} :
     /\ send.pc = "idle"
     /\ apiRequests < maxRequests
     /\ currentScreen = "main"
     /\ viaButton => (~isSending /\ readiness.canSend)
     /\ IF ~readiness.hasValidEmail
        THEN /\ currentScreen' = "settings"
             /\ sendOutcome' = "no-recipient"
             /\ UNCHANGED <<isSending, send, apiRequests, isRecording, recorderVars,
                            audioChunks>>
        ELSE IF contentMissing(readiness)
        THEN /\ sendOutcome' = "no-content"
             /\ UNCHANGED <<currentScreen, isSending, send, apiRequests, isRecording,
                            recorderVars, audioChunks>>
        ELSE IF inputMode = "voice" /\ mediaRecorder = "recording" /\ isRecording
        THEN \* stopRecordingAndGetData stops the running recorder, which
             \* delivers its data
             /\ recorderStopped
             /\ audioChunks' = audioChunks + 1
             /\ isRecording' = FALSE
             /\ send' = [call EXCEPT !.pc = "reading"]
             /\ sendOutcome' = "reading"
             /\ UNCHANGED <<currentScreen, isSending, apiRequests>>
        ELSE IF inputMode = "voice"
        THEN \* stopRecordingAndGetData reads the data recorded before
             /\ send' = [call EXCEPT !.pc = "reading"]
             /\ sendOutcome' = "reading"
             /\ UNCHANGED <<currentScreen, isSending, apiRequests, isRecording,
                            recorderVars, audioChunks>>
        ELSE /\ dispatch(call)
             /\ UNCHANGED <<currentScreen, isRecording, recorderVars, audioChunks>>
     /\ UNCHANGED <<inputMode, textInput, recordingDuration, capturedImage,
                    capturedPhotoNote, overlap>>
     /\ UNCHANGED <<accountVars, historyVars, sessionVars, serverVars, load, clock,
                    profileVars, settingsVars, pushVars, harnessVars, backendVars>>

\* sendToss after "await stopRecordingAndGetData()": the FileReader has
\* delivered the audio
sendTossAudioRead ==
  /\ send.pc = "reading"
  /\ dispatch(send)
  /\ UNCHANGED overlap
  /\ UNCHANGED <<accountVars, historyVars, inputVars, sessionVars, serverVars,
                 currentScreen, load, clock, profileVars, settingsVars, pushVars, harnessVars, backendVars>>

\* the answers the relay can give to a send request
\* the answers the relay can give to a send request: the HTTP status class,
\* whether the body carries a request id, and the delivery counters of its data
Delivery(succeeded, failed) == [succeeded |-> succeeded, failed |-> failed]

RelayResponses ==
  {[ok |-> TRUE, hasRequestId |-> TRUE, data |-> Some(Delivery(1, 0))],
   [ok |-> TRUE, hasRequestId |-> TRUE, data |-> Some(Delivery(0, 1))],
   [ok |-> TRUE, hasRequestId |-> FALSE, data |-> None],
   [ok |-> FALSE, hasRequestId |-> FALSE, data |-> None]}

\* the relay answers 2xx with a request id
relayAccepted(relayResponse) == relayResponse.ok /\ relayResponse.hasRequestId

\* the handler of the sendEmail action: "ok" for its return value, "error"
\* for a throw, which the route answers with status 400
sendEmail(keyConfigured, relayResponse) ==
  IF ~keyConfigured THEN "error"
  ELSE IF ~relayResponse.ok \/ ~relayResponse.hasRequestId THEN "error"
  ELSE "ok"

\* POST /api/send-email for the request of the app: the route runs sendEmail,
\* which calls the relay once the API key is found
serveSendEmail(keyConfigured, relayResponse) ==
  /\ send.pc = "awaiting"
  /\ relayLog' = IF keyConfigured THEN relayLog \cup {send.targetEmail} ELSE relayLog
  /\ send' = [send EXCEPT !.pc = "answered",
                          !.response = sendEmail(keyConfigured, relayResponse),
                          !.relay = IF keyConfigured THEN Some(relayResponse) ELSE None]
  /\ UNCHANGED <<isSending, overlap, apiRequests, sendOutcome, remote>>
  /\ UNCHANGED <<accountVars, historyVars, inputVars, sessionVars, currentScreen, load,
                 clock, profileVars, settingsVars, pushVars, harnessVars, backendVars>>

\* fetch fails: request() answers with the error 'Network error'
sendRequestFails ==
  /\ send.pc = "awaiting"
  /\ send' = [send EXCEPT !.pc = "answered", !.response = "error"]
  /\ UNCHANGED <<isSending, overlap, apiRequests, sendOutcome>>
  /\ UNCHANGED <<accountVars, historyVars, inputVars, sessionVars, serverVars,
                 currentScreen, load, clock, profileVars, settingsVars, pushVars, harnessVars, backendVars>>

\* POST /api/send-email from any HTTP client, with any destination string
directSendEmail(to, keyConfigured, relayResponse) ==
  /\ relayLog' = IF keyConfigured THEN relayLog \cup {to} ELSE relayLog
  /\ UNCHANGED remote
  /\ UNCHANGED <<accountVars, historyVars, inputVars, sessionVars, sendVars,
                 currentScreen, load, clock, profileVars, settingsVars, pushVars, harnessVars, backendVars>>

\* a slip that stores the item as not sent
newToss_unsent(call) ==
  [id |-> clock, type |-> call.type, content |-> call.content, sent |-> FALSE,
   emailTo |-> call.targetEmail]

newToss(call) ==
  [id |-> clock, type |-> call.type, content |-> call.content, sent |-> TRUE,
   emailTo |-> call.targetEmail]

\* a slip that resets the inputs whatever the answer is
inputsAfterSend_always(succeeded) ==
  [textInput |-> <<>>, capturedImage |-> None, capturedPhotoNote |-> <<>>,
   recordingDuration |-> 0]

\* the inputs sendToss leaves: reset at the end of the try block, kept by
\* the catch block
inputsAfterSend(succeeded) ==
  IF succeeded
  THEN [textInput |-> <<>>, capturedImage |-> None, capturedPhotoNote |-> <<>>,
        recordingDuration |-> 0]
  ELSE [textInput |-> textInput, capturedImage |-> capturedImage,
        capturedPhotoNote |-> capturedPhotoNote,
        recordingDuration |-> recordingDuration]

\* sendToss after "await sendTossEmail(...)"
sendTossAnswer(pushed) ==
  \E inputs \in {inputsAfterSend(send.response = "ok")} :
  /\ send.pc = "answered"
  /\ send' = SendIdle
  /\ isSending' = FALSE
  /\ textInput' = inputs.textInput
  /\ capturedImage' = inputs.capturedImage
  /\ capturedPhotoNote' = inputs.capturedPhotoNote
  /\ recordingDuration' = inputs.recordingDuration
  /\ IF send.response = "error"
     THEN /\ sendOutcome' = "failed"
          /\ UNCHANGED <<historyVars, remote, pushVars, clock>>
     ELSE LET updatedHistory == Take(<<newToss(send)>> \o send.history, HISTORY_LIMIT) IN
            /\ sendOutcome' = "sent"
            /\ clock' = clock + 1
            /\ history' = updatedHistory
            /\ lsHistory' = Some(updatedHistory)
            /\ sendRequests(saveHistory(send.user # None /\ token # None,
                                        sendClosure, updatedHistory), pushed)
  /\ UNCHANGED <<inputMode, isRecording, recorderVars, audioChunks, overlap>>
  /\ UNCHANGED <<accountVars, sessionVars, apiRequests, relayLog, currentScreen, load,
                 profileVars, settingsVars, harnessVars, backendVars>>

(***************************************************************************)
(* A second call of sendToss while the first one reads its audio           *)
(***************************************************************************)
\* the send button pressed while the call in progress awaits
\* stopRecordingAndGetData: "setIsSending(true)" comes after that await, so
\* the button is enabled whenever getSendReadiness().canSend; the handler
\* runs up to its first await with the values of the current render
sendTossAgain(maxRequests) ==
  \E readiness \in {getSendReadiness} :
  \E call \in {sendCall("idle", readiness.targetEmail)} :
     /\ send.pc = "reading"
     /\ overlap.pc = "idle"
     /\ apiRequests < maxRequests
     /\ currentScreen = "main"
     /\ ~isSending /\ readiness.canSend
     /\ IF contentMissing(readiness)
        THEN /\ sendOutcome' = "no-content"
             /\ UNCHANGED <<isSending, overlap, apiRequests, isRecording,
                            recorderVars, audioChunks>>
        ELSE IF inputMode = "voice" /\ mediaRecorder = "recording" /\ isRecording
        THEN /\ recorderStopped
             /\ audioChunks' = audioChunks + 1
             /\ isRecording' = FALSE
             /\ overlap' = [call EXCEPT !.pc = "reading"]
             /\ sendOutcome' = "reading"
             /\ UNCHANGED <<isSending, apiRequests>>
        ELSE IF inputMode = "voice"
        THEN /\ overlap' = [call EXCEPT !.pc = "reading"]
             /\ sendOutcome' = "reading"
             /\ UNCHANGED <<isSending, apiRequests, isRecording, recorderVars,
                            audioChunks>>
        ELSE /\ isSending' = TRUE
             /\ apiRequests' = apiRequests + 1
             /\ overlap' = [call EXCEPT !.pc = "awaiting"]
             /\ sendOutcome' = "dispatched"
             /\ UNCHANGED <<isRecording, recorderVars, audioChunks>>
     /\ UNCHANGED <<inputMode, textInput, recordingDuration, capturedImage,
                    capturedPhotoNote, send, currentScreen>>
     /\ UNCHANGED <<accountVars, historyVars, sessionVars, serverVars, load, clock,
                    profileVars, settingsVars, pushVars, harnessVars, backendVars>>

\* the second call after "await stopRecordingAndGetData()"
sendTossAgainAudioRead ==
  /\ overlap.pc = "reading"
  /\ isSending' = TRUE
  /\ apiRequests' = apiRequests + 1
  /\ overlap' = [overlap EXCEPT !.pc = "awaiting"]
  /\ sendOutcome' = "dispatched"
  /\ UNCHANGED send
  /\ UNCHANGED <<accountVars, historyVars, inputVars, sessionVars, serverVars,
                 currentScreen, load, clock, profileVars, settingsVars, pushVars,
                 harnessVars, backendVars>>

\* POST /api/send-email for the request of the second call
serveSendEmailAgain(keyConfigured, relayResponse) ==
  /\ overlap.pc = "awaiting"
  /\ relayLog' = IF keyConfigured THEN relayLog \cup {overlap.targetEmail} ELSE relayLog
  /\ overlap' = [overlap EXCEPT !.pc = "answered",
                                !.response = sendEmail(keyConfigured, relayResponse),
                                !.relay = IF keyConfigured THEN Some(relayResponse)
                                          ELSE None]
  /\ UNCHANGED <<isSending, send, apiRequests, sendOutcome, remote>>
  /\ UNCHANGED <<accountVars, historyVars, inputVars, sessionVars, currentScreen, load,
                 clock, profileVars, settingsVars, pushVars, harnessVars, backendVars>>

\* the second call after "await sendTossEmail(...)"
sendTossAgainAnswer(pushed) ==
  \E inputs \in {inputsAfterSend(overlap.response = "ok")} :
  /\ overlap.pc = "answered"
  /\ overlap' = SendIdle
  /\ isSending' = FALSE
  /\ textInput' = inputs.textInput
  /\ capturedImage' = inputs.capturedImage
  /\ capturedPhotoNote' = inputs.capturedPhotoNote
  /\ recordingDuration' = inputs.recordingDuration
  /\ IF overlap.response = "error"
     THEN /\ sendOutcome' = "failed"
          /\ UNCHANGED <<historyVars, remote, pushVars, clock>>
     ELSE LET updatedHistory ==
                Take(<<newToss(overlap)>> \o overlap.history, HISTORY_LIMIT)
              closure ==
                Snapshot(overlap.emailAccounts, overlap.history, overlap.userProfile,
                         overlap.categories, overlap.darkMode)
          IN /\ sendOutcome' = "sent"
             /\ clock' = clock + 1
             /\ history' = updatedHistory
             /\ lsHistory' = Some(updatedHistory)
             /\ sendRequests(saveHistory(overlap.user # None /\ token # None,
                                         closure, updatedHistory), pushed)
  /\ UNCHANGED <<inputMode, isRecording, recorderVars, audioChunks, send>>
  /\ UNCHANGED <<accountVars, sessionVars, apiRequests, relayLog, currentScreen, load,
                 profileVars, settingsVars, harnessVars, backendVars>>

(***************************************************************************)
(* Environment                                                             *)
(***************************************************************************)
\* the app is closed and opened again: the component is constructed anew,
\* localStorage and the backend keep their contents
relaunch ==
  /\ ~authLoading
  /\ user' = None
  /\ authLoading' = TRUE
  /\ currentScreen' = "auth"
  /\ emailAccounts' = <<>>
  /\ selectedEmailIndex' = 0
  /\ history' = <<>>
  /\ inputMode' = "text"
  /\ textInput' = <<>>
  /\ isRecording' = FALSE
  /\ recordingDuration' = 0
  /\ capturedImage' = None
  /\ capturedPhotoNote' = <<>>
  /\ isSending' = FALSE
  /\ mediaRecorder' = "none"
  /\ mic' = MicIdle
  /\ audioChunks' = 0
  /\ load' = LoadIdle
  /\ send' = SendIdle
  /\ overlap' = SendIdle
  /\ userProfile' = EmptyProfile
  /\ categories' = DEFAULT_CATEGORIES
  /\ isDarkMode' = FALSE
  /\ UNCHANGED <<lsEmailAccounts, lsHistory, hasOnboarded, token, apiRequests,
                 sendOutcome, serverVars, clock, lsUserProfile, lsCategories,
                 lsDarkMode, pushVars, harnessVars, backendVars>>

\* bound on the length of an account list written by another client
MaxRemoteLen == 2

RemoteEmails == {EmailMeRaw, EmailRelay}

\* ids given by the other client
RemoteAccounts(n) ==
  {[id |-> MaxClock + n, email |-> e, alias |-> NULL, isDefault |-> TRUE] :
     e \in RemoteEmails}

RECURSIVE RemoteAccountLists(_)
RemoteAccountLists(n) ==
  IF n = 0 THEN {<<>>}
  ELSE LET shorter == RemoteAccountLists(n - 1) IN
         shorter \cup {Append(l, a) : l \in {t \in shorter : Len(t) = n - 1},
                                      a \in RemoteAccounts(n)}

\* POST /api/state from another installation of the user: the record is
\* stored as sent, whatever the account list in it.  This installation reads
\* the record only in loadSavedData, so a save made at any earlier time shows
\* as one made while the load is awaited.
remoteSavedElsewhere(snapshot) ==
  /\ token # None
  /\ load.pc = "awaiting"
  /\ remote' = Some(snapshot)
  /\ UNCHANGED <<accountVars, historyVars, inputVars, sessionVars, sendVars, relayLog,
                 currentScreen, load, clock, profileVars, settingsVars, pushVars, harnessVars, backendVars>>

(***************************************************************************)
(* Accounts specification: sessions, loads and the account handlers        *)
(***************************************************************************)
NextAccounts ==
  \/ \E valid \in BOOLEAN : checkSession(valid, TRUE)
  \/ \E u \in SessionUsers : signIn(u, TRUE)
  \/ \E answered \in BOOLEAN : loadRemoteAnswer(answered, TRUE)
  \/ handleLogout
  \/ \E screen \in {"main", "settings"} : navigate(screen)
  \/ selectNextInbox
  \/ \E e \in TypedEmails \ {EmailMe}, pushed \in BOOLEAN :
       addEmailAccount(e, <<" ", "X">>, pushed)
  \/ \E k \in 1..Len(emailAccounts) : removeEmailAccount(emailAccounts[k].id, TRUE)
  \/ \E e \in {EmailMeRaw, EmailRelay, <<>>} : onboardingGetStarted(e, TRUE)
  \/ relaunch
  \/ \E l \in RemoteAccountLists(MaxRemoteLen) :
       remoteSavedElsewhere(Snapshot(l, <<>>, EmptyProfile, DEFAULT_CATEGORIES, FALSE))

SpecAccounts == Init /\ [][NextAccounts]_vars

(***************************************************************************)
(* Validator harness: one call of getDestinationEmailStatus per input      *)
(***************************************************************************)
MaxStrLen == 5

ALPHABET == {" ", "a", "A", "@", "."}

RECURSIVE StringsUpTo(_)
StringsUpTo(n) ==
  IF n = 0 THEN {<<>>}
  ELSE LET shorter == StringsUpTo(n - 1) IN
         shorter \cup {Append(s, c) : s \in {t \in shorter : Len(t) = n - 1}, c \in ALPHABET}

\* addresses built around the two reserved domains, in several spellings
SuffixedInputs ==
  {pre \o loc \o suf \o post :
     pre \in {<<>>, <<" ">>, <<"\t">>},
     loc \in {<<>>, <<"x">>, <<"X">>, <<"a", " ", "b">>, <<"a", "@", "b">>},
     suf \in {GENERATED_SUFFIX, RELAY_SUFFIX,
              <<"@", "M", "i", "n", "d", "t", "o", "s", "s", ".", "L", "o", "c", "a", "l">>,
              GENERATED_SUFFIX \o <<"x">>, RELAY_SUFFIX \o <<".", "a">>,
              Tail(GENERATED_SUFFIX), Tail(RELAY_SUFFIX)},
     post \in {<<>>, <<" ">>}}

ValidatorInputs ==
  {NULL, EmailMe, EmailMeRaw, EmailB, EmailRelay, EmailGenerated, EmailInvalid}
    \cup StringsUpTo(MaxStrLen) \cup SuffixedInputs

InitValidator ==
  /\ InitComponent
  /\ InitWorld
  /\ InitBackend
  /\ vIn \in ValidatorInputs
  /\ vOut = "pending"
  /\ vOutNormalized = "pending"
  /\ sIn = <<>>
  /\ sOut = <<>>
  /\ cIn = <<>>
  /\ cOut = None

Validate ==
  /\ vOut = "pending"
  /\ vOut' = getDestinationEmailStatus(vIn)
  /\ UNCHANGED <<vIn, vOutNormalized, sIn, sOut, cIn, cOut>>
  /\ UNCHANGED <<accountVars, historyVars, inputVars, sessionVars, sendVars,
                 serverVars, currentScreen, load, clock, profileVars, settingsVars,
                 pushVars, backendVars>>

\* the same call on the string already trimmed and lower-cased by the caller
ValidateNormalized ==
  /\ vOutNormalized = "pending"
  /\ vIn # NULL
  /\ vOutNormalized' = getDestinationEmailStatus(toLowerCase(trim(vIn)))
  /\ UNCHANGED <<vIn, vOut, sIn, sOut, cIn, cOut>>
  /\ UNCHANGED <<accountVars, historyVars, inputVars, sessionVars, sendVars,
                 serverVars, currentScreen, load, clock, profileVars, settingsVars,
                 pushVars, backendVars>>

NextValidator == Validate \/ ValidateNormalized

SpecValidator == InitValidator /\ [][NextValidator]_vars

(***************************************************************************)
(* C1: getDestinationEmailStatus is total and returns the first matching   *)
(* status in the order empty, generated, relay, invalid, ok, where the     *)
(* tests are made on the trimmed, lower-cased input: empty string; ends    *)
(* with '@mindtoss.local'; ends with '@privaterelay.appleid.com'; not of   *)
(* the shape local@domain.tld (no whitespace, exactly one '@' after a      *)
(* non-empty local part, a dot inside the domain).                         *)
(***************************************************************************)
Statuses == {"ok", "empty", "invalid", "generated", "relay"}

Positions(s, c) == {i \in 1..Len(s) : s[i] = c}

HasShape(s) ==
  /\ \A i \in 1..Len(s) : s[i] \notin WS
  /\ Cardinality(Positions(s, "@")) = 1
  /\ LET at == CHOOSE i \in Positions(s, "@") : TRUE
         domain == SubSeq(s, at + 1, Len(s))
     IN /\ at > 1
        /\ \E d \in Positions(domain, ".") : 1 < d /\ d < Len(domain)

Canonical(x) ==
  IF x = NULL THEN <<>> ELSE toLowerCase(trimEnd(trimStart(x)))

ExpectedStatus(x) ==
  LET n == Canonical(x) IN
    CASE n = <<>> -> "empty"
      [] n # <<>> /\ endsWith(n, GENERATED_SUFFIX) -> "generated"
      [] n # <<>> /\ ~endsWith(n, GENERATED_SUFFIX) /\ endsWith(n, RELAY_SUFFIX) -> "relay"
      [] n # <<>> /\ ~endsWith(n, GENERATED_SUFFIX) /\ ~endsWith(n, RELAY_SUFFIX)
           /\ ~HasShape(n) -> "invalid"
      [] OTHER -> "ok"

C1_StatusFirstMatch ==
  vOut # "pending" => (vOut \in Statuses /\ vOut = ExpectedStatus(vIn))

C1_Witness ==
  /\ vIn = <<" ">> \o <<"a", " ", "b">> \o RELAY_SUFFIX
  /\ vOut = "relay"

(***************************************************************************)
(* C11: for every string s, the status of s equals the status of s trimmed *)
(* and lower-cased, and the status is one of the five values ok, empty,    *)
(* invalid, generated, relay.                                              *)
(***************************************************************************)
C11_StatusOfNormalized ==
  (vOut # "pending" /\ vOutNormalized # "pending")
    => (vOut = vOutNormalized /\ vOut \in Statuses)

\* an address that trimming and lower-casing really change
C11_Witness ==
  /\ vIn = EmailMeRaw
  /\ toLowerCase(trim(vIn)) # vIn
  /\ vOut = "ok"
  /\ vOutNormalized = "ok"

(***************************************************************************)
(* Category harness: one call of sanitizeCategories per saved list         *)
(***************************************************************************)
MaxCategories == 2

RawCategories ==
  {NullCategory}
    \cup {[id |-> i, name |-> n, color |-> "#FF6B35", icon |-> "star"] :
            i \in {"ideas", "reminders", "work", "home", NOT_A_STRING},
            n \in {"Ideas", "Work", NOT_A_STRING}}

RECURSIVE RawCategoryLists(_)
RawCategoryLists(n) ==
  IF n = 0 THEN {<<>>}
  ELSE LET shorter == RawCategoryLists(n - 1) IN
         shorter \cup {Append(l, c) : l \in {t \in shorter : Len(t) = n - 1},
                                      c \in RawCategories}

\* saved lists: a few entries, alone or after the built-ins but the last
SavedCategoryLists ==
  {prefix \o l : prefix \in {<<>>, SubSeq(DEFAULT_CATEGORIES, 1, 4)},
                 l \in RawCategoryLists(MaxCategories)}

InitCategories ==
  /\ InitComponent
  /\ InitWorld
  /\ InitBackend
  /\ vIn = NULL
  /\ vOut = "pending"
  /\ vOutNormalized = "pending"
  /\ sIn = <<>>
  /\ sOut = <<>>
  /\ cIn \in SavedCategoryLists
  /\ cOut = None

SanitizeCategories ==
  /\ cOut = None
  /\ cOut' = Some(sanitizeCategories(cIn))
  /\ UNCHANGED <<cIn, vIn, vOut, vOutNormalized, sIn, sOut>>
  /\ UNCHANGED <<accountVars, historyVars, inputVars, sessionVars, sendVars,
                 serverVars, currentScreen, load, clock, profileVars, settingsVars,
                 pushVars, backendVars>>

NextCategories == SanitizeCategories

SpecCategories == InitCategories /\ [][NextCategories]_vars

(***************************************************************************)
(* C12: sanitizeCategories applied to a saved list that lacks a built-in   *)
(* id returns a list whose first five entries have the ids all, ideas,     *)
(* tasks, notes, reminders in that order, the missing one carrying its     *)
(* default name, color and icon, followed by every non-built-in category   *)
(* of the input in input order.                                            *)
(***************************************************************************)
BuiltInIds == <<"all", "ideas", "tasks", "notes", "reminders">>

HasId(list, id) == \E i \in DOMAIN list : list[i] # NullCategory /\ list[i].id = id

LacksBuiltIn(list) == \E k \in DOMAIN BuiltInIds : ~HasId(list, BuiltInIds[k])

NonBuiltIn(list) ==
  SelectSeq(list, LAMBDA c :
              c # NullCategory /\ \A k \in DOMAIN BuiltInIds : c.id # BuiltInIds[k])

C12_BuiltInsRestored ==
  (cOut # None /\ LacksBuiltIn(cIn)) =>
    LET out == cOut[1] IN
      /\ Len(out) >= 5
      /\ \A k \in 1..5 : out[k].id = BuiltInIds[k]
      /\ \A k \in 1..5 : ~HasId(cIn, BuiltInIds[k]) => out[k] = DEFAULT_CATEGORIES[k]
      /\ SubSeq(out, 6, Len(out)) = NonBuiltIn(cIn)

\* the built-ins but 'reminders', then two custom categories
C12_Witness ==
  /\ cOut # None
  /\ Len(cIn) = 6
  /\ ~HasId(cIn, "reminders")
  /\ cIn[5] # NullCategory
  /\ cIn[6] # NullCategory
  /\ cIn[5].id = "work"
  /\ cIn[6].id = "home"
  /\ cOut[1][5] = DEFAULT_CATEGORIES[5]
  /\ cOut[1][6] = cIn[5]
  /\ cOut[1][7] = cIn[6]

(***************************************************************************)
(* Specification of the pipeline: one user on one installation, from the   *)
(* first launch to sent tosses                                             *)
(***************************************************************************)
Next ==
  \/ \E valid \in BOOLEAN : checkSession(valid, TRUE)
  \/ signIn([email |-> EmailGenerated], TRUE)
  \/ loadRemoteAnswer(TRUE, TRUE)
  \/ \E e \in {EmailMeRaw, EmailRelay} : onboardingGetStarted(e, TRUE)
  \/ \E mode \in {"text", "voice", "photo"} : switchMode(mode)
  \/ \E text \in Texts : setTextInput(text)
  \/ startRecording
  \/ recordingTick
  \/ stopRecording
  \/ clearRecording
  \/ setCapturedImage(IMAGE)
  \/ removeImage
  \/ \E note \in PhotoNotes : setCapturedPhotoNote(note)
  \/ \E viaButton \in BOOLEAN : sendToss(viaButton, MaxRequests)
  \/ sendTossAudioRead
  \/ \E keyConfigured \in BOOLEAN, r \in RelayResponses : serveSendEmail(keyConfigured, r)
  \/ sendRequestFails
  \/ sendTossAnswer(TRUE)

Spec == Init /\ [][Next]_vars

(***************************************************************************)
(* Specification of the inboxes: the notes of one user whose inboxes come  *)
(* and go                                                                  *)
(***************************************************************************)
NextInbox ==
  \/ checkSession(FALSE, TRUE)
  \/ signIn([email |-> EmailGenerated], TRUE)
  \/ loadRemoteAnswer(TRUE, TRUE)
  \/ \E e \in {EmailMeRaw, EmailRelay} : onboardingGetStarted(e, TRUE)
  \/ \E screen \in {"main", "settings"} : navigate(screen)
  \/ \E e \in {EmailB, EmailRelay, EmailInvalid} : addEmailAccount(e, <<>>, TRUE)
  \/ \E id \in 1..MaxClock : removeEmailAccount(id, TRUE)
  \/ selectNextInbox
  \/ \E text \in Texts : setTextInput(text)
  \/ \E viaButton \in BOOLEAN : sendToss(viaButton, MaxRequests)
  \/ \E r \in RelayResponses : serveSendEmail(TRUE, r)
  \/ sendTossAnswer(TRUE)

SpecInbox == Init /\ [][NextInbox]_vars

(***************************************************************************)
(* Specification of the history: one inbox, the same note sent again and   *)
(* again, the relay accepting each, and the history cleared at times       *)
(***************************************************************************)
NOTE == <<" ", "m">>

ACCEPTED == [ok |-> TRUE, hasRequestId |-> TRUE, data |-> Some(Delivery(1, 0))]

NextHistory ==
  \/ checkSession(FALSE, TRUE)
  \/ signIn([email |-> EmailGenerated], TRUE)
  \/ loadRemoteAnswer(TRUE, TRUE)
  \/ onboardingGetStarted(EmailMeRaw, TRUE)
  \/ \E screen \in {"main", "history"} : navigate(screen)
  \/ setTextInput(NOTE)
  \/ sendToss(TRUE, HISTORY_LIMIT + MaxRequests)
  \/ serveSendEmail(TRUE, ACCEPTED)
  \/ sendTossAnswer(TRUE)
  \/ clearHistory(TRUE)

SpecHistory == Init /\ [][NextHistory]_vars

\* bounds of the backend: tokens issued, days and times to live that pass,
\* states saved
MaxTokens == 3

MaxTicks == 2

MaxSaves == 2

(***************************************************************************)
(* Backend: the tables users, sessions and userStates, the functions that  *)
(* read and write them, and the HTTP routes that call these functions.     *)
(* The backend clock counts days.  A query function gets a database reader *)
(* (no delete), a mutation function is a transaction: when its handler     *)
(* throws, none of its writes is committed.                                *)
(***************************************************************************)
\* 1000 * 60 * 60 * 24 * 30 ms, in days
SESSION_TTL_MS == 30

Tables == [users |-> users, sessions |-> sessions, userStates |-> userStates]

\* how a function ends: with a value and the tables it leaves, or by throwing
Returned(value, db) == [threw |-> FALSE, value |-> value, db |-> db]

Thrown(message) == [threw |-> TRUE, error |-> message, db |-> Tables]

toSafeUser(userRow) == [id |-> userRow._id, email |-> userRow.email]

\* .withIndex("by_token").unique(), db.get(id), .withIndex("by_email").unique()
sessionByToken(db, t) == {s \in db.sessions : s.token = t}

userById(db, id) == {u \in db.users : u._id = id}

userByEmail(db, email) == {u \in db.users : u.email = email}

\* the rows of a user in userStates, as positions in the table
statesOf(db, id) ==
  {i \in 1..Len(db.userStates) : db.userStates[i].userId = id}

\* db.delete(session._id): the reader of a query has no such method
deleteSession(db, canWrite, session) ==
  IF canWrite
  THEN [auth |-> None, threw |-> FALSE,
        db |-> [db EXCEPT !.sessions = @ \ {session}]]
  ELSE [auth |-> None, threw |-> TRUE, db |-> db]

getUserByToken(db, canWrite, t) ==
  IF sessionByToken(db, t) = {}
  THEN [auth |-> None, threw |-> FALSE, db |-> db]
  ELSE LET session == CHOOSE s \in sessionByToken(db, t) : TRUE
       IN  IF session.expiresAt < now
           THEN deleteSession(db, canWrite, session)
           ELSE IF userById(db, session.userId) = {}
                THEN deleteSession(db, canWrite, session)
                ELSE [auth |-> Some([session |-> session,
                                     user |-> CHOOSE u \in userById(db, session.userId) : TRUE]),
                      threw |-> FALSE, db |-> db]

READER_HAS_NO_DELETE == "ctx.db.delete is not a function"

\* insert("sessions", ...) with a token from crypto.randomUUID()
newSession(t, userId) ==
  [token |-> t, userId |-> userId, expiresAt |-> now + SESSION_TTL_MS]

\* mutation signUp; the new user's id is `id`, the new token is `t`
signUp(email, passwordHash, id, t) ==
  LET normalized == toLowerCase(trim(email))
  IN  IF userByEmail(Tables, normalized) # {}
      THEN Thrown("An account with this email already exists.")
      ELSE Returned(
             [user |-> [id |-> id, email |-> normalized], sessionToken |-> t],
             [Tables EXCEPT
                !.users = @ \cup {[_id |-> id, email |-> normalized,
                                   passwordHash |-> passwordHash]},
                !.sessions = @ \cup {newSession(t, id)}])

MORE_THAN_ONE == "unique() query returned more than one result"

\* mutation signIn
signInMutation(email, passwordHash, t) ==
  LET normalized == toLowerCase(trim(email))
      found == userByEmail(Tables, normalized)
  IN  IF Cardinality(found) > 1 THEN Thrown(MORE_THAN_ONE)
      ELSE IF found = {} \/ (CHOOSE u \in found : TRUE).passwordHash # passwordHash
      THEN Thrown("Invalid email or password.")
      ELSE LET userRow == CHOOSE u \in found : TRUE
           IN  Returned(
                 [user |-> toSafeUser(userRow), sessionToken |-> t],
                 [Tables EXCEPT !.sessions = @ \cup {newSession(t, userRow._id)}])

\* .withIndex("by_apple_user_id").unique()
userByAppleUserId(db, appleUserId) ==
  {u \in db.users : "appleUserId" \in DOMAIN u /\ u.appleUserId = appleUserId}

\* the passwordHash of a row inserted without one
NO_PASSWORD == "undefined"

\* mutation signInWithApple; email is None (the argument is left out) or
\* Some(string), the new user's id is `id`, the new token is `t`
signInWithApple(appleUserId, email, id, t) ==
  LET normalizedEmail == IF email = None THEN <<>> ELSE toLowerCase(trim(email[1]))
      byApple == userByAppleUserId(Tables, appleUserId)
      byEmail == IF byApple = {} /\ truthy(normalizedEmail)
                 THEN userByEmail(Tables, normalizedEmail) ELSE {}
      found == IF byApple # {} THEN byApple ELSE byEmail
  IN  IF Cardinality(byApple) > 1 \/ Cardinality(byEmail) > 1
      THEN Thrown(MORE_THAN_ONE)
      ELSE IF found = {}
      THEN LET fallbackEmail ==
                 orElse(normalizedEmail, APPLE_PREFIX \o appleUserId \o GENERATED_SUFFIX)
               inserted == [_id |-> id, email |-> fallbackEmail,
                            passwordHash |-> NO_PASSWORD, appleUserId |-> appleUserId]
           IN  Returned(
                 [user |-> toSafeUser(inserted), sessionToken |-> t],
                 [Tables EXCEPT !.users = @ \cup {inserted},
                                !.sessions = @ \cup {newSession(t, id)}])
      ELSE LET userRow == CHOOSE u \in found : TRUE
               patched == [_id |-> userRow._id,
                           email |-> orElse(normalizedEmail, userRow.email),
                           passwordHash |-> userRow.passwordHash,
                           appleUserId |-> IF "appleUserId" \in DOMAIN userRow
                                           THEN orElse(userRow.appleUserId, appleUserId)
                                           ELSE appleUserId]
           IN  Returned(
                 [user |-> toSafeUser(patched), sessionToken |-> t],
                 [Tables EXCEPT !.users = (@ \ {userRow}) \cup {patched},
                                !.sessions = @ \cup {newSession(t, userRow._id)}])

\* query getSession; null is None
getSession(t) ==
  LET looked == getUserByToken(Tables, FALSE, t)
  IN  IF looked.threw THEN Thrown(READER_HAS_NO_DELETE)
      ELSE IF looked.auth = None THEN Returned(None, Tables)
      ELSE Returned(Some([user |-> toSafeUser(looked.auth[1].user),
                          expiresAt |-> looked.auth[1].session.expiresAt]),
                    Tables)

\* mutation signOut
signOut(t) ==
  Returned([success |-> TRUE],
           [Tables EXCEPT !.sessions = @ \ sessionByToken(Tables, t)])

\* the table without the rows at the positions in `gone`
withoutRows(rows, gone) ==
  LET keep[i \in 0..Len(rows)] ==
        IF i = 0 THEN <<>>
        ELSE IF i \in gone THEN keep[i - 1] ELSE Append(keep[i - 1], rows[i])
  IN  keep[Len(rows)]

\* a slip that leaves the user's other sessions in the table
deleteAccount_thisSessionOnly(t) ==
  LET looked == getUserByToken(Tables, TRUE, t)
  IN  IF looked.auth = None THEN Thrown("Unauthorized.")
      ELSE LET id == looked.auth[1].user._id
           IN  IF Cardinality(statesOf(looked.db, id)) > 1 THEN Thrown(MORE_THAN_ONE)
               ELSE Returned([success |-> TRUE],
                      [users |-> looked.db.users \ userById(looked.db, id),
                       sessions |-> looked.db.sessions \ {looked.auth[1].session},
                       userStates |->
                         withoutRows(looked.db.userStates, statesOf(looked.db, id))])

\* mutation deleteAccount
deleteAccount(t) ==
  LET looked == getUserByToken(Tables, TRUE, t)
  IN  IF looked.auth = None THEN Thrown("Unauthorized.")
      ELSE LET id == looked.auth[1].user._id
           IN  IF Cardinality(statesOf(looked.db, id)) > 1 THEN Thrown(MORE_THAN_ONE)
               ELSE Returned([success |-> TRUE],
                      [users |-> looked.db.users \ userById(looked.db, id),
                       sessions |-> {s \in looked.db.sessions : s.userId # id},
                       userStates |->
                         withoutRows(looked.db.userStates, statesOf(looked.db, id))])

\* query getState; null is None
getState(t) ==
  LET looked == getUserByToken(Tables, FALSE, t)
  IN  IF looked.threw THEN Thrown(READER_HAS_NO_DELETE)
      ELSE IF looked.auth = None THEN Thrown("Unauthorized.")
      ELSE LET mine == statesOf(Tables, looked.auth[1].user._id)
           IN  IF Cardinality(mine) > 1 THEN Thrown(MORE_THAN_ONE)
               ELSE IF mine = {} THEN Returned(None, Tables)
               ELSE LET row == userStates[CHOOSE i \in mine : TRUE]
                    IN  Returned(Some([state |-> row.state, updatedAt |-> row.updatedAt]),
                                 Tables)

\* a slip that inserts a row at every save
saveState_insertOnly(t, state) ==
  LET looked == getUserByToken(Tables, TRUE, t)
  IN  IF looked.auth = None THEN Thrown("Unauthorized.")
      ELSE LET id == looked.auth[1].user._id
               payload == [userId |-> id, state |-> state, updatedAt |-> now]
           IN  Returned([success |-> TRUE],
                        [looked.db EXCEPT !.userStates = Append(@, payload)])

\* mutation saveState; `state` stands for the five fields emailAccountsJson,
\* historyJson, userProfileJson, categoriesJson and darkMode of the arguments
saveState(t, state) ==
  LET looked == getUserByToken(Tables, TRUE, t)
  IN  IF looked.auth = None THEN Thrown("Unauthorized.")
      ELSE LET id == looked.auth[1].user._id
               existing == statesOf(looked.db, id)
               payload == [userId |-> id, state |-> state, updatedAt |-> now]
           IN  IF Cardinality(existing) > 1 THEN Thrown(MORE_THAN_ONE)
               ELSE IF existing # {}
               THEN Returned([success |-> TRUE],
                      [looked.db EXCEPT
                         !.userStates[CHOOSE i \in existing : TRUE] = payload])
               ELSE Returned([success |-> TRUE],
                      [looked.db EXCEPT !.userStates = Append(@, payload)])

\* ---- HTTP routes ----
json(route, status, payload) ==
  response' = [route |-> route, status |-> status, body |-> payload]

commit(db) ==
  /\ users' = db.users
  /\ sessions' = db.sessions
  /\ userStates' = db.userStates

MISSING_HEADER == [error |-> "Missing Authorization header."]

\* withErrorHandling around a handler that answers `status` with body(value)
\* when the function it runs returns
answer(route, result, status, body) ==
  /\ commit(result.db)
  /\ IF result.threw
     THEN json(route, 400, [error |-> result.error])
     ELSE json(route, status, body)

clientVars ==
  <<accountVars, historyVars, inputVars, sessionVars, sendVars, serverVars,
    currentScreen, load, clock, profileVars, settingsVars, pushVars, harnessVars>>

\* ids and tokens are new at every insert: the next ones
nextUserId == Cardinality({i.userId : i \in issued}) + 1

nextToken == Cardinality(issued) + 1

\* POST /api/auth/sign-up
postSignUp(email, passwordHash) ==
  /\ nextToken <= MaxTokens
  /\ \E result \in {signUp(email, passwordHash, nextUserId, nextToken)} :
       /\ answer("/api/auth/sign-up", result, 200,
                 IF result.threw THEN None ELSE result.value)
       /\ issued' = IF result.threw THEN issued
                    ELSE issued \cup {[token |-> nextToken, userId |-> nextUserId]}
  /\ UNCHANGED <<now, savedStates, clientVars>>

\* POST /api/auth/sign-in
postSignIn(email, passwordHash) ==
  /\ nextToken <= MaxTokens
  /\ \E result \in {signInMutation(email, passwordHash, nextToken)} :
       /\ answer("/api/auth/sign-in", result, 200,
                 IF result.threw THEN None ELSE result.value)
       /\ issued' = IF result.threw THEN issued
                    ELSE issued \cup {[token |-> nextToken,
                                       userId |-> result.value.user.id]}
  /\ UNCHANGED <<now, savedStates, clientVars>>

\* POST /api/auth/apple
postApple(appleUserId, email) ==
  /\ nextToken <= MaxTokens
  /\ \E result \in {signInWithApple(appleUserId, email, nextUserId, nextToken)} :
       /\ answer("/api/auth/apple", result, 200,
                 IF result.threw THEN None ELSE result.value)
       /\ issued' = IF result.threw THEN issued
                    ELSE issued \cup {[token |-> nextToken,
                                       userId |-> result.value.user.id]}
  /\ UNCHANGED <<now, savedStates, clientVars>>

\* GET /api/auth/session; header is None or Some(token)
getSessionRoute(header) ==
  /\ IF header = None
     THEN json("/api/auth/session", 401, MISSING_HEADER) /\ commit(Tables)
     ELSE \E result \in {getSession(header[1])} :
            IF ~result.threw /\ result.value = None
            THEN /\ json("/api/auth/session", 401, [error |-> "Invalid session."])
                 /\ commit(result.db)
            ELSE answer("/api/auth/session", result, 200,
                        IF result.threw THEN None ELSE [session |-> result.value[1]])
  /\ UNCHANGED <<now, issued, savedStates, clientVars>>

\* POST /api/auth/sign-out
postSignOut(header) ==
  /\ IF header = None
     THEN json("/api/auth/sign-out", 200, [success |-> TRUE]) /\ commit(Tables)
     ELSE answer("/api/auth/sign-out", signOut(header[1]), 200, [success |-> TRUE])
  /\ UNCHANGED <<now, issued, savedStates, clientVars>>

\* POST /api/account/delete
postAccountDelete(header) ==
  /\ IF header = None
     THEN json("/api/account/delete", 401, MISSING_HEADER) /\ commit(Tables)
     ELSE \E result \in {deleteAccount(header[1])} :
            answer("/api/account/delete", result, 200, [success |-> TRUE])
  /\ UNCHANGED <<now, issued, savedStates, clientVars>>

\* GET /api/state
getStateRoute(header) ==
  /\ IF header = None
     THEN json("/api/state GET", 401, MISSING_HEADER) /\ commit(Tables)
     ELSE \E result \in {getState(header[1])} :
            answer("/api/state GET", result, 200,
                   IF result.threw THEN None ELSE [state |-> result.value])
  /\ UNCHANGED <<now, issued, savedStates, clientVars>>

\* POST /api/state
postStateRoute(header, state) ==
  /\ Len(savedStates) < MaxSaves
  /\ IF header = None
     THEN /\ json("/api/state POST", 401, MISSING_HEADER)
          /\ commit(Tables)
          /\ savedStates' = savedStates
     ELSE \E result \in {saveState(header[1], state)} :
            /\ answer("/api/state POST", result, 200, [success |-> TRUE])
            /\ savedStates' = IF result.threw THEN savedStates
                        ELSE Append(savedStates,
                               [userId |-> (CHOOSE s \in sessionByToken(Tables, header[1]) : TRUE).userId,
                                state |-> state])
  /\ UNCHANGED <<now, issued, clientVars>>

\* time passes on the backend: a day, or the time to live of a session
Elapses == {1, SESSION_TTL_MS}

tick(days) ==
  /\ (now \div SESSION_TTL_MS) + (now % SESSION_TTL_MS) < MaxTicks
  /\ now' = now + days
  /\ UNCHANGED <<users, sessions, userStates, response, issued, savedStates,
                 clientVars>>

(***************************************************************************)
(* Specification of the send-email endpoint, open to any HTTP client       *)
(***************************************************************************)
Destinations == TypedEmails

NextServer ==
  \E to \in Destinations, keyConfigured \in BOOLEAN, r \in RelayResponses :
    directSendEmail(to, keyConfigured, r)

SpecServer == Init /\ [][NextServer]_vars

(***************************************************************************)
(* Specification of the state sync: sessions, loads of the local and the   *)
(* remote state, and the handlers that change the profile, the theme, the  *)
(* accounts and the history, with a backend record that another            *)
(* installation of the user may have written                               *)
(***************************************************************************)
\* identities: an email sign-up, and an Apple sign-in without a shared email
SyncUsers ==
  {[email |-> EmailMe], [email |-> EmailGenerated, full_name |-> <<"A", "l">>]}

\* profiles found in a record: complete, without email, with the address
\* that the backend generates for an Apple identity without email
ProfileBo == [username |-> <<"b", "o">>, displayName |-> <<"B", "o">>, email |-> EmailB]

ProfileNoEmail == [ProfileBo EXCEPT !.email = <<>>]

ProfileGenerated ==
  [username |-> APPLE_PREFIX \o <<"1">>, displayName |-> <<"B", "o">>,
   email |-> <<"A">> \o GENERATED_SUFFIX]

\* category lists found in a record: the built-ins, the built-ins with
\* 'ideas' renamed, one custom category alone
CategoriesRenamed ==
  [DEFAULT_CATEGORIES EXCEPT ![2] = [@ EXCEPT !.name = "Brainstorms"]]

CategoriesCustom ==
  <<[id |-> "work", name |-> "Work", color |-> "#FF6B35", icon |-> "star"]>>

StoredItem ==
  [id |-> 0, type |-> "text", content |-> <<"m">>, sent |-> TRUE, emailTo |-> EmailB]

\* records written by another installation
SyncSnapshots ==
  {Snapshot(<<a>>, <<StoredItem>>, ProfileGenerated, CategoriesRenamed, TRUE) :
     a \in RemoteAccounts(1)}
    \cup {Snapshot(<<>>, <<>>, ProfileBo, CategoriesCustom, FALSE)}
    \cup {Snapshot(<<a>>, <<>>, ProfileNoEmail, DEFAULT_CATEGORIES, TRUE) :
            a \in RemoteAccounts(1)}

NextSync ==
  \/ \E valid \in BOOLEAN : checkSession(valid, TRUE)
  \/ \E u \in SyncUsers : signIn(u, TRUE)
  \/ \E answered \in BOOLEAN : loadRemoteAnswer(answered, TRUE)
  \/ \E snapshot \in SyncSnapshots : remoteSavedElsewhere(snapshot)
  \/ relaunch
  \/ \E e \in {EmailMeRaw, <<>>} : onboardingGetStarted(e, TRUE)
  \/ \E screen \in {"main", "settings", "history"} : navigate(screen)
  \/ openProfile
  \/ closeProfile
  \/ toggleDarkMode(TRUE)
  \/ \E name \in {<<>>, <<" ", "z", " ">>} : updateUserProfile(name, <<>>, TRUE)
  \/ clearHistory(TRUE)
  \/ handleLogout

SpecSync == Init /\ [][NextSync]_vars

(***************************************************************************)
(* C13: after every local or remote load, each built-in category (all,     *)
(* ideas, tasks, notes, reminders) is in the category list with its        *)
(* built-in name, whether the stored list omits the built-in or carries    *)
(* its id with a different name.                                           *)
(***************************************************************************)
HasBuiltIn(list, k) ==
  \E i \in DOMAIN list :
    /\ list[i].id = DEFAULT_CATEGORIES[k].id
    /\ list[i].name = DEFAULT_CATEGORIES[k].name

C13_BuiltInsKeepNames ==
  /\ \A k \in DOMAIN DEFAULT_CATEGORIES : HasBuiltIn(categories, k)
  /\ lsCategories # None =>
       \A k \in DOMAIN DEFAULT_CATEGORIES : HasBuiltIn(lsCategories[1], k)

(***************************************************************************)
(* C14: after loading a local or remote profile, after the initialisation  *)
(* of the profile from the signed-in identity and after any profile edit,  *)
(* the email of the profile never ends with '@mindtoss.local', in any      *)
(* spelling of the domain; a remote load of a stored profile with such an  *)
(* email leaves an email that is not the stored one, and an empty one when *)
(* no account is there to derive it from.                                  *)
(***************************************************************************)
PullReturnsSnapshot ==
  /\ load.pc = "awaiting"
  /\ token # None
  /\ remote # None
  /\ loadRemoteAnswer(TRUE, TRUE)

PullReturnsNothing ==
  /\ load.pc = "awaiting"
  /\ loadRemoteAnswer(FALSE, TRUE)

LocalKept ==
  UNCHANGED <<emailAccounts, lsEmailAccounts, history, lsHistory, userProfile,
              lsUserProfile, categories, lsCategories, isDarkMode, lsDarkMode>>

\* the four values other than the profile are the sanitized remote ones
RemoteApplied ==
  /\ emailAccounts' = sanitizeEmailAccounts(remote[1].emailAccounts)
  /\ lsEmailAccounts' = Some(emailAccounts')
  /\ history' = remote[1].history
  /\ lsHistory' = Some(history')
  /\ categories' = sanitizeCategories(remote[1].categories)
  /\ lsCategories' = Some(categories')
  /\ isDarkMode' = remote[1].darkMode
  /\ lsDarkMode' = Some(isDarkMode')

C19_PullOverwritesLocal ==
  /\ [][PullReturnsSnapshot =>
          /\ RemoteApplied
          /\ userProfile' = sanitizeGeneratedAppleProfile(remote[1].userProfile)
          /\ lsUserProfile' = Some(userProfile')]_vars
  /\ [][PullReturnsNothing => LocalKept]_vars

\* C19, amended: the profile becomes the sanitized remote profile, except
\* that an empty email in it is at once derived from the first remote
\* account, when there is one, together with an empty username or display
\* name.
C19_PullOverwritesLocalButEmptyEmail ==
  /\ [][PullReturnsSnapshot =>
          LET remoteProfile == sanitizeGeneratedAppleProfile(remote[1].userProfile) IN
            /\ RemoteApplied
            /\ userProfile' =
                 IF Len(emailAccounts') > 0 /\ ~truthy(remoteProfile.email)
                 THEN profileFromAccounts(remoteProfile, emailAccounts')
                 ELSE remoteProfile
            /\ lsUserProfile' = Some(userProfile')]_vars
  /\ [][PullReturnsNothing => LocalKept]_vars

\* the record with the generated address and a usable inbox has been loaded
C19_Witness ==
  /\ user # None
  /\ load.pc = "idle"
  /\ history = <<StoredItem>>
  /\ lsHistory = Some(history)
  /\ isDarkMode
  /\ lsDarkMode = Some(TRUE)
  /\ categories = CategoriesRenamed
  /\ Len(emailAccounts) = 1
  /\ emailAccounts[1].email = EmailMe
  /\ userProfile = [username |-> APPLE_USER, displayName |-> <<"B", "o">>, email |-> EmailMe]
  /\ lsUserProfile = Some(userProfile)

(***************************************************************************)
(* C8: after any sequence of add-account, remove-account, onboarding       *)
(* completion, automatic account setup at sign-in and local or remote      *)
(* load, the account list in state and the one in local storage have no    *)
(* two entries with the same normalized email, only emails classified ok,  *)
(* and isDefault true for exactly the first entry.                         *)
(***************************************************************************)
WellFormedAccounts(accounts) ==
  /\ \A i, j \in 1..Len(accounts) :
       i # j => toLowerCase(trim(accounts[i].email)) # toLowerCase(trim(accounts[j].email))
  /\ \A i \in 1..Len(accounts) : ExpectedStatus(accounts[i].email) = "ok"
  /\ \A i \in 1..Len(accounts) : accounts[i].isDefault <=> (i = 1)

C8_AccountsWellFormed ==
  /\ WellFormedAccounts(emailAccounts)
  /\ lsEmailAccounts # None => WellFormedAccounts(lsEmailAccounts[1])

\* a remote list with a duplicate and a wrong default flag has been loaded,
\* and the user has added a second inbox to it
C8_Witness ==
  /\ load.pc = "idle"
  /\ remote # None
  /\ Len(remote[1].emailAccounts) = 2
  /\ ~WellFormedAccounts(remote[1].emailAccounts)
  /\ Len(emailAccounts) = 2
  /\ emailAccounts[1].id > MaxClock
  /\ lsEmailAccounts = Some(emailAccounts)

(***************************************************************************)
(* Sanitizer harness: sanitizeEmailAccounts applied to a list, then to its *)
(* own result.  sOut is the sequence of the results so far.                *)
(***************************************************************************)
MaxListLen == 2

RawAliases == {NULL, <<" ">>, <<" ", "m", "e", " ">>, <<"X">>}

RawAccounts(id) ==
  {[id |-> id, email |-> e, alias |-> a, isDefault |-> d] :
     e \in RawEmails, a \in RawAliases, d \in BOOLEAN}

RECURSIVE RawAccountLists(_)
RawAccountLists(n) ==
  IF n = 0 THEN {<<>>}
  ELSE LET shorter == RawAccountLists(n - 1) IN
         shorter \cup {Append(l, a) : l \in {t \in shorter : Len(t) = n - 1}, a \in RawAccounts(n)}

InitSanitizer ==
  /\ InitComponent
  /\ InitWorld
  /\ InitBackend
  /\ sIn \in RawAccountLists(MaxListLen)
  /\ sOut = <<>>
  /\ vIn = NULL
  /\ vOut = "pending"
  /\ vOutNormalized = "pending"
  /\ cIn = <<>>
  /\ cOut = None

Sanitize ==
  /\ Len(sOut) < 2
  /\ sOut' = Append(sOut, sanitizeEmailAccounts(IF sOut = <<>> THEN sIn ELSE sOut[Len(sOut)]))
  /\ UNCHANGED <<sIn, vIn, vOut, vOutNormalized, cIn, cOut>>
  /\ UNCHANGED <<accountVars, historyVars, inputVars, sessionVars, sendVars,
                 serverVars, currentScreen, load, clock, profileVars, settingsVars,
                 pushVars, backendVars>>

NextSanitizer == Sanitize

SpecSanitizer == InitSanitizer /\ [][NextSanitizer]_vars

(***************************************************************************)
(* C9: sanitizeEmailAccounts is idempotent: sanitizing a sanitized list    *)
(* gives the same list, with the same order, aliases and isDefault flags.  *)
(***************************************************************************)
C9_SanitizeIdempotent == Len(sOut) = 2 => sOut[2] = sOut[1]

\* a list that the first pass really changes: a duplicate dropped, an email
\* normalized, an alias trimmed
C9_Witness ==
  /\ Len(sOut) = 2
  /\ Len(sIn) = 2
  /\ Len(sOut[1]) = 1
  /\ sIn[1].email = EmailMeRaw
  /\ sIn[1].alias = <<" ", "m", "e", " ">>
  /\ sOut[1][1].email = EmailMe
  /\ sOut[1][1].alias = <<"m", "e">>

(***************************************************************************)
(* Steps and states of a call of sendToss, as the properties name them     *)
(***************************************************************************)
\* a call of sendToss begins
SendTossCalled ==
  /\ send.pc = "idle"
  /\ currentScreen = "main"
  /\ UNCHANGED <<inputMode, textInput, recordingDuration, capturedImage,
                 capturedPhotoNote, accountVars, historyVars>>
  /\ \E viaButton \in BOOLEAN : sendToss(viaButton, MaxRequests)

\* the call leaves sendToss: its answer is handled
SendTossEnds == send.pc = "answered" /\ send'.pc = "idle"

storedHistory == IF lsHistory = None THEN <<>> ELSE lsHistory[1]

\* the relay counted a recipient it did not deliver to
rejectedDelivery(r) ==
  r.data # None /\ (r.data[1].succeeded = 0 \/ r.data[1].failed >= 1)

(***************************************************************************)
(* C2: a call of sendToss whose selected destination is not classified ok  *)
(* (no account at the selected index included) issues no request and       *)
(* leaves the history in state and in storage alone; every request the app *)
(* issues and every history entry carries a destination classified ok.     *)
(***************************************************************************)
C2_BlockedWithoutOkDestination ==
  /\ [][(getDestinationEmailStatus(selectedEmail) # "ok" /\ SendTossCalled)
          => UNCHANGED <<apiRequests, send, isSending, history, lsHistory>>]_vars
  /\ [][apiRequests' # apiRequests
          => getDestinationEmailStatus(send'.targetEmail) = "ok"]_vars
  /\ [](\A i \in 1..Len(history) : getDestinationEmailStatus(history[i].emailTo) = "ok")

\* with a note typed and the last inbox removed, the call ended on the
\* settings screen without a request
C2_Witness ==
  /\ sendOutcome = "no-recipient"
  /\ currentScreen = "settings"
  /\ emailAccounts = <<>>
  /\ getDestinationEmailStatus(selectedEmail) = "empty"
  /\ Len(trim(textInput)) > 0
  /\ apiRequests = 0
  /\ history = <<>>

(***************************************************************************)
(* C3: a call of sendToss in text mode with blank text, in voice mode with *)
(* no running recording and no recorded memo, or in photo mode with no     *)
(* image issues no request and starts no send.                             *)
(***************************************************************************)
NoContent ==
  CASE inputMode = "text" -> Len(trim(textInput)) = 0
    [] inputMode = "voice" -> ~isRecording /\ (recordingDuration = 0 \/ audioChunks = 0)
    [] OTHER -> capturedImage = None

C3_NoContentNoRequest ==
  [][(NoContent /\ SendTossCalled) => UNCHANGED <<apiRequests, send, isSending>>]_vars

\* whitespace-only text and a valid inbox: the call ended without a request
C3_Witness ==
  /\ sendOutcome = "no-content"
  /\ inputMode = "text"
  /\ textInput = <<" ">>
  /\ getDestinationEmailStatus(selectedEmail) = "ok"
  /\ apiRequests = 0
  /\ send.pc = "idle"

(***************************************************************************)
(* C4: a call of sendToss in text mode that goes out carries the text as   *)
(* typed, non-blank, and the selected destination, classified ok; when the *)
(* relay accepts it with a request id and no failed delivery, the history  *)
(* becomes the new entry (type text, that content, sent, that destination) *)
(* followed by the history of the time of the call, and the text input     *)
(* becomes empty.                                                          *)
(***************************************************************************)
C4_TextSendAppends ==
  /\ [][(send.pc = "idle" /\ send'.pc = "awaiting" /\ inputMode = "text")
          => /\ send'.content = textInput
             /\ Len(trim(textInput)) > 0
             /\ send'.targetEmail = normalizeEmail(selectedEmail)
             /\ getDestinationEmailStatus(selectedEmail) = "ok"
             /\ send'.history = history]_vars
  /\ [][(/\ SendTossEnds
         /\ send.type = "text"
         /\ send.relay # None
         /\ relayAccepted(send.relay[1])
         /\ ~rejectedDelivery(send.relay[1]))
          => /\ Len(history') = Len(send.history) + 1
             /\ Tail(history') = send.history
             /\ history'[1].type = "text"
             /\ history'[1].content = send.content
             /\ history'[1].sent = TRUE
             /\ history'[1].emailTo = send.targetEmail
             /\ textInput' = <<>>]_vars

C4_Witness ==
  /\ sendOutcome = "sent"
  /\ Len(history) = 1
  /\ history[1].type = "text"
  /\ history[1].content = <<" ", "m">>
  /\ history[1].sent
  /\ history[1].emailTo = EmailMe
  /\ textInput = <<>>

(***************************************************************************)
(* C5: when the send call ends in an error, the step that handles it       *)
(* leaves the history in state and in storage, the text, the image, the    *)
(* caption and the recorded memo as they are and issues no request; the    *)
(* steps of the call before it leave them too, except that a running       *)
(* recording is stopped and its data kept; a request is only ever issued   *)
(* by a call on its way out, one per call.                                 *)
(***************************************************************************)
C5_ErrorKeepsInput ==
  /\ [][(SendTossEnds /\ send.response = "error")
          => UNCHANGED <<history, lsHistory, textInput, capturedImage,
                         capturedPhotoNote, recordingDuration, audioChunks,
                         apiRequests>>]_vars
  /\ [][(send.pc # send'.pc /\ send'.pc # "idle")
          => /\ UNCHANGED <<history, lsHistory, textInput, capturedImage,
                            capturedPhotoNote, recordingDuration>>
             /\ audioChunks' >= audioChunks]_vars
  /\ [][apiRequests' # apiRequests
          => /\ send.pc \in {"idle", "reading"}
             /\ send'.pc = "awaiting"
             /\ apiRequests' = apiRequests + 1]_vars

\* a failed send of a photo with its caption: both are still there
C5_Witness ==
  /\ sendOutcome = "failed"
  /\ inputMode = "photo"
  /\ capturedImage = Some(IMAGE)
  /\ capturedPhotoNote = <<"n">>
  /\ history = <<>>
  /\ lsHistory = None
  /\ apiRequests = 1
  /\ send.pc = "idle"

(***************************************************************************)
(* C6: when the relay answers 2xx with a request id and delivery counters  *)
(* that show no success or a failure, the answer to the app is an error,   *)
(* and handling it adds no history entry and keeps the input.              *)
(***************************************************************************)
C6_RejectedDeliveryIsError ==
  [][(/\ send.pc = "answered"
      /\ send.relay # None
      /\ relayAccepted(send.relay[1])
      /\ rejectedDelivery(send.relay[1]))
       => /\ send.response = "error"
          /\ SendTossEnds => UNCHANGED <<history, lsHistory, textInput, capturedImage,
                                         capturedPhotoNote, recordingDuration>>]_vars

(***************************************************************************)
(* C7: the send-email operation never calls the relay for a destination    *)
(* the validator classifies generated or relay.                            *)
(***************************************************************************)
C7_ServerRejectsReserved ==
  \A to \in relayLog : getDestinationEmailStatus(to) \notin {"generated", "relay"}

(***************************************************************************)
(* C10: the history in state and in storage never holds more than 100      *)
(* entries, and each append leaves the new item first, followed by the     *)
(* items of the history the call appended to, in their order, as far as    *)
(* the limit allows.                                                       *)
(***************************************************************************)
C10_HistoryCapped ==
  /\ [](Len(history) <= 100 /\ Len(storedHistory) <= 100)
  /\ [][(SendTossEnds /\ send.response = "ok")
          => /\ Len(history') = (IF Len(send.history) < 100
                                 THEN Len(send.history) + 1 ELSE 100)
             /\ history'[1].id = clock
             /\ history'[1].content = send.content
             /\ \A i \in 2..Len(history') : history'[i] = send.history[i - 1]
             /\ storedHistory' = history']_vars

\* more than 100 notes sent in a row: the history holds the newest 100
C10_Witness ==
  /\ sendOutcome = "sent"
  /\ apiRequests > 100
  /\ Len(history) = 100
  /\ history[1].id > history[100].id
  /\ storedHistory = history

(***************************************************************************)
(* Specifications of the backend, open to any HTTP client.  In the first   *)
(* time passes while clients sign up, in and out, ask for their session    *)
(* and delete their account; in the second two clients sign up, one of    *)
(* them signs in again, and they save and read their state and delete      *)
(* their account.                                                          *)
(***************************************************************************)
BackendEmails == {EmailMeRaw, EmailB}

PasswordHashes == {"h1", "h2"}

\* the tokens issued, valid or not any more
IssuedHeaders == {Some(i.token) : i \in issued}

\* no Authorization header, a token that was never issued, the tokens issued
Headers == {None, Some(0)} \cup IssuedHeaders

StateEmpty ==
  [emailAccountsJson |-> "[]", historyJson |-> "[]", userProfileJson |-> "{}",
   categoriesJson |-> "[]", darkMode |-> FALSE]

StateFull ==
  [emailAccountsJson |-> "[me]", historyJson |-> "[note]",
   userProfileJson |-> "{bo}", categoriesJson |-> "[work]", darkMode |-> TRUE]

States == {StateEmpty, StateFull}

NextSessions ==
  \/ postSignUp(EmailMeRaw, "h1")
  \/ \E passwordHash \in PasswordHashes : postSignIn(EmailMe, passwordHash)
  \/ \E header \in Headers : getSessionRoute(header)
  \/ \E header \in Headers : postSignOut(header)
  \/ \E header \in Headers : postAccountDelete(header)
  \/ \E days \in Elapses : tick(days)

SpecSessions == Init /\ [][NextSessions]_vars

NextStates ==
  \/ \E email \in BackendEmails : postSignUp(email, "h1")
  \/ postSignIn(EmailMe, "h1")
  \/ \E header \in IssuedHeaders : postAccountDelete(header)
  \/ \E header \in IssuedHeaders : getStateRoute(header)
  \/ \E header \in IssuedHeaders, state \in States : postStateRoute(header, state)

SpecStates == Init /\ [][NextStates]_vars

\* a request to one of the routes that authenticate their caller by the token
authenticatedRequest(header) ==
  \/ getSessionRoute(header)
  \/ getStateRoute(header)
  \/ \E state \in States : postStateRoute(header, state)
  \/ postAccountDelete(header)

(***************************************************************************)
(* C15: a request with the token of a session is accepted only while       *)
(* now < expiresAt and the session's user exists; a request made when      *)
(* now >= expiresAt, or when the user is missing, is refused and leaves    *)
(* the table without that session.                                         *)
(***************************************************************************)
C15_SessionValidWhileNotExpired ==
  [][\A s \in sessions :
       authenticatedRequest(Some(s.token)) =>
         /\ response'.status = 200 =>
              now < s.expiresAt /\ userById(Tables, s.userId) # {}
         /\ (now >= s.expiresAt \/ userById(Tables, s.userId) = {}) =>
              response'.status # 200 /\ s \notin sessions']_vars

(***************************************************************************)
(* C16: GET /api/auth/session answers 200 with the user of the session     *)
(* for a token whose session has not expired and whose user exists, and    *)
(* 401 for every other request: no token, unknown token, expired session,  *)
(* missing user.                                                           *)
(***************************************************************************)
validSessions(header) ==
  IF header = None THEN {}
  ELSE {s \in sessionByToken(Tables, header[1]) :
          now < s.expiresAt /\ userById(Tables, s.userId) # {}}

C16_SessionRouteAnswers200Or401 ==
  [][\A header \in Headers :
       getSessionRoute(header) =>
         IF validSessions(header) # {}
         THEN /\ response'.status = 200
              /\ \A s \in validSessions(header) :
                   response'.body.session.user.id = s.userId
         ELSE response'.status = 401]_vars

(***************************************************************************)
(* C17: after a successful POST /api/account/delete with a token of user U *)
(* the tables hold no state, no session and no row of U, the rows of the   *)
(* other users are as before, and every token ever issued to a deleted     *)
(* user is refused.                                                        *)
(***************************************************************************)
others(rows, id) == {r \in rows : r.userId # id}

otherStates(rows, id) ==
  withoutRows(rows, {i \in 1..Len(rows) : rows[i].userId = id})

C17_DeleteAccountCascades ==
  /\ [][\A s \in sessions :
          (/\ response'.route = "/api/account/delete"
           /\ response'.status = 200
           /\ postAccountDelete(Some(s.token))) =>
            /\ userById(Tables', s.userId) = {}
            /\ \A r \in sessions' : r.userId # s.userId
            /\ statesOf(Tables', s.userId) = {}
            /\ users' = users \ userById(Tables, s.userId)
            /\ sessions' = others(sessions, s.userId)
            /\ userStates' = otherStates(userStates, s.userId)]_vars
  /\ [][\A i \in issued :
          ~(/\ userById(Tables, i.userId) = {}
            /\ response'.status = 200
            /\ authenticatedRequest(Some(i.token)))]_vars

\* the account of a user with two sessions and a saved state is gone, the
\* other user has its session and its state
C17_Witness ==
  /\ response.route = "/api/account/delete"
  /\ response.status = 200
  /\ \E i, j \in issued :
       /\ i.userId = j.userId
       /\ i.token # j.token
       /\ userById(Tables, i.userId) = {}
       /\ \E k \in 1..Len(savedStates) : savedStates[k].userId = i.userId
  /\ \E u \in users :
       /\ statesOf(Tables, u._id) # {}
       /\ \E s \in sessions : s.userId = u._id

(***************************************************************************)
(* C18: the table userStates never holds two rows of one user, and a       *)
(* successful GET /api/state answers the five fields of the latest state   *)
(* that POST /api/state stored for the user, or null when there is none.   *)
(***************************************************************************)
savesOf(id) == SelectSeq(savedStates, LAMBDA e : e.userId = id)

C18_OneStatePerUserLastSaveWins ==
  /\ [](\A u \in users : Cardinality(statesOf(Tables, u._id)) <= 1)
  /\ [][\A s \in sessions :
          (/\ response'.route = "/api/state GET"
           /\ response'.status = 200
           /\ getStateRoute(Some(s.token))) =>
            IF savesOf(s.userId) = <<>>
            THEN response'.body.state = None
            ELSE /\ response'.body.state # None
                 /\ response'.body.state[1].state
                      = savesOf(s.userId)[Len(savesOf(s.userId))].state]_vars

\* a user saved two states that differ in every field and reads the second
C18_Witness ==
  /\ response.route = "/api/state GET"
  /\ response.status = 200
  /\ \E u \in users :
       /\ Len(savesOf(u._id)) = 2
       /\ savesOf(u._id)[1].state = StateFull
       /\ savesOf(u._id)[2].state = StateEmpty
       /\ response.body.state # None
       /\ response.body.state[1].state = StateEmpty
       /\ Len(userStates) = 1

(***************************************************************************)
(* C20: every step of a handler that changes the email accounts, the       *)
(* history, the profile or the dark-mode flag of a signed-in user, other   *)
(* than applying a pulled snapshot, sends a push whose five fields are the *)
(* local values as they stand after the step.                              *)
(***************************************************************************)
\* Specification of a user who signs in, sets up an inbox, sends notes,
\* clears the history and uses the dark mode switch of the settings, also
\* while a send is under way
NextPush ==
  \/ checkSession(FALSE, TRUE)
  \/ signIn([email |-> EmailMe], TRUE)
  \/ loadRemoteAnswer(TRUE, TRUE)
  \/ onboardingGetStarted(EmailMeRaw, TRUE)
  \/ \E screen \in {"main", "settings", "history"} : navigate(screen)
  \/ setTextInput(NOTE)
  \/ sendToss(TRUE, MaxRequests)
  \/ serveSendEmail(TRUE, ACCEPTED)
  \/ sendTossAnswer(TRUE)
  \/ toggleDarkMode(TRUE)
  \/ clearHistory(TRUE)

SpecPush == Init /\ [][NextPush]_vars

LocalValues == <<emailAccounts, history, userProfile, isDarkMode>>

PullAnswered == load.pc = "awaiting" /\ load'.pc # "awaiting"

C20_MutationPushesCurrentValues ==
  [][(/\ signedIn
      /\ signedIn'
      /\ LocalValues' # LocalValues
      /\ ~PullAnswered)
       => lastPush' = Some(render')]_vars

(***************************************************************************)
(* C21: a call of sendToss that validation rejects (no destination         *)
(* classified ok, or no content) leaves the current screen, the input      *)
(* mode, the text, the image, the caption, the recording, the history and  *)
(* the account list as they were.                                          *)
(***************************************************************************)
RejectedByValidation ==
  ~getSendReadiness.hasValidEmail \/ contentMissing(getSendReadiness)

C22_SuccessClearsOnlySentMode ==
  [][(SendTossEnds /\ send.response = "ok")
       => /\ send.type = "text" =>
               UNCHANGED <<capturedImage, capturedPhotoNote, recordingDuration,
                           audioChunks>>
          /\ send.type = "photo" =>
               UNCHANGED <<textInput, recordingDuration, audioChunks>>
          /\ send.type = "voice" =>
               UNCHANGED <<textInput, capturedImage, capturedPhotoNote>>]_vars

(***************************************************************************)
(* Specification of pushes that fail: a signed-in user sets up an inbox,   *)
(* switches the theme, edits the profile and clears the history, and each  *)
(* push of these handlers reaches the backend or fails                     *)
(***************************************************************************)
NextBestEffort ==
  \/ checkSession(FALSE, TRUE)
  \/ signIn([email |-> EmailMe], TRUE)
  \/ loadRemoteAnswer(TRUE, TRUE)
  \/ \E pushed \in BOOLEAN : onboardingGetStarted(EmailMeRaw, pushed)
  \/ \E screen \in {"main", "settings", "history"} : navigate(screen)
  \/ openProfile
  \/ closeProfile
  \/ \E pushed \in BOOLEAN : toggleDarkMode(pushed)
  \/ \E pushed \in BOOLEAN : updateUserProfile(<<"z">>, <<>>, pushed)
  \/ \E pushed \in BOOLEAN : clearHistory(pushed)
  \/ syncErrorLogged

SpecBestEffort == Init /\ [][NextBestEffort]_vars

(***************************************************************************)
(* C23: a push that fails changes nothing on the client: the step that     *)
(* sends it has applied the local change, so that the state holds the      *)
(* values pushed, and leaves the backend record alone; the report of the   *)
(* failure leaves the state and the storage as they are and sends no       *)
(* further push.                                                           *)
(***************************************************************************)
LocalState ==
  <<emailAccounts, selectedEmailIndex, history, userProfile, categories,
    isDarkMode, currentScreen, user>>

LocalStorage ==
  <<lsEmailAccounts, lsHistory, lsUserProfile, lsCategories, lsDarkMode,
    hasOnboarded, token>>

C23_FailedPushKeepsLocalMutation ==
  /\ [][pushErrors' < pushErrors
          => UNCHANGED <<LocalState, LocalStorage, lastPush, remote>>]_vars
  /\ [][pushErrors' > pushErrors
          => /\ remote' = remote
             /\ lastPush' = Some(render')]_vars

\* the push of the dark mode switch failed and the failure was reported: the
\* flag is on in state and in storage, the backend never got it
C23_Witness ==
  /\ pushErrors = 0
  /\ isDarkMode
  /\ lsDarkMode = Some(TRUE)
  /\ lastPush # None
  /\ lastPush[1].darkMode
  /\ remote # None
  /\ ~remote[1].darkMode
  /\ signedIn

(***************************************************************************)
(* C24: when the load ends and the user has no email account (the stored   *)
(* list gave none and the pull gave no snapshot, or one without a valid    *)
(* account) the onboarding flag is removed and the screen is onboarding;   *)
(* when the stored list or the snapshot gave an account, the end of the    *)
(* load changes neither the screen nor the flag.                           *)
(***************************************************************************)
pulledSnapshot(answered) == IF answered /\ token # None THEN remote ELSE None

NoAccountLoaded(answered) ==
  /\ load.resolvedEmails = <<>>
  /\ \/ pulledSnapshot(answered) = None
     \/ sanitizeEmailAccounts(pulledSnapshot(answered)[1].emailAccounts) = <<>>

C24_OnboardingOnlyWithoutAccounts ==
  [][\A answered \in BOOLEAN :
       loadRemoteAnswer(answered, TRUE) =>
         IF NoAccountLoaded(answered)
         THEN ~hasOnboarded' /\ currentScreen' = "onboarding"
         ELSE UNCHANGED <<hasOnboarded, currentScreen>>]_vars


(***************************************************************************)
(* Specification of the send button: one inbox, voice memos recorded and   *)
(* sent, the button pressed whenever it is enabled                         *)
(***************************************************************************)
NextOverlap ==
  \/ checkSession(FALSE, TRUE)
  \/ signIn([email |-> EmailGenerated], TRUE)
  \/ loadRemoteAnswer(TRUE, TRUE)
  \/ onboardingGetStarted(EmailMeRaw, TRUE)
  \/ switchMode("voice")
  \/ startRecording
  \/ recordingTick
  \/ stopRecording
  \/ sendToss(TRUE, MaxRequests)
  \/ sendTossAudioRead
  \/ serveSendEmail(TRUE, ACCEPTED)
  \/ sendTossAnswer(TRUE)
  \/ sendTossAgain(MaxRequests + 1)
  \/ sendTossAgainAudioRead
  \/ serveSendEmailAgain(TRUE, ACCEPTED)
  \/ sendTossAgainAnswer(TRUE)

SpecOverlap == Init /\ [][NextOverlap]_vars

\* the request of a call is on its way to the relay or its answer on its way back
inFlight(call) == call.pc \in {"awaiting", "answered"}

\* C25: at most one send request is in flight, and a call of sendToss made
\* from the send button while another call runs, the wait for the stopped
\* recorder of a voice send included, issues no relay request and adds no
\* history item
C25_OneSendAtATime ==
  /\ [](~(inFlight(send) /\ inFlight(overlap)))
  /\ [][send.pc # "idle" => apiRequests' <= apiRequests \/ send'.pc = "awaiting"]_vars
  /\ [][overlap.pc = "answered" /\ overlap'.pc = "idle" => history' = history]_vars

(***************************************************************************)
(* Specification of the microphone: one inbox, the record button and the   *)
(* send button pressed while getUserMedia calls are awaited                *)
(***************************************************************************)
NextMicrophone ==
  \/ checkSession(FALSE, TRUE)
  \/ signIn([email |-> EmailGenerated], TRUE)
  \/ loadRemoteAnswer(TRUE, TRUE)
  \/ onboardingGetStarted(EmailMeRaw, TRUE)
  \/ switchMode("voice")
  \/ startRecordingCalled
  \/ startRecordingGranted
  \/ startRecordingRefused
  \/ recordingTick
  \/ stopRecording
  \/ clearRecording
  \/ sendToss(TRUE, MaxRequests)
  \/ sendTossAudioRead
  \/ serveSendEmail(TRUE, ACCEPTED)
  \/ sendTossAnswer(TRUE)

SpecMicrophone == Init /\ [][NextMicrophone]_vars

\* the streams acquired whose tracks are live
liveStreams == (IF mic.open THEN 1 ELSE 0) + mic.leaked

\* C26: at most one microphone stream is live at any time, two calls of
\* startRecording made before the first acquisition resolves included, and
\* once stopRecording or a voice send has stopped the recorder no acquired
\* stream has a live track
C26_OneRecordingSession ==
  /\ [](liveStreams <= 1)
  /\ [][mediaRecorder = "recording" /\ mediaRecorder' = "inactive" => liveStreams' = 0]_vars

(***************************************************************************)
(* Specification of the refused token: one installation whose requests     *)
(* carry the stored token to the backend, where sessions expire and the    *)
(* account is deleted by a request of another client.  The stored token is *)
(* kept with the user it stands for, as the field sessionToken.            *)
(***************************************************************************)
storedToken == token[1].sessionToken

\* the status of GET /api/auth/session, GET /api/state and POST /api/state:
\* the two queries write nothing, and the mutation of a refused save is
\* rolled back
sessionStatus(t) ==
  LET result == getSession(t)
  IN  IF result.threw THEN 400 ELSE IF result.value = None THEN 401 ELSE 200

stateStatus(t) == IF getState(t).threw THEN 400 ELSE 200

saveStatus(t) == IF saveState(t, render).threw THEN 400 ELSE 200

\* whether the backend takes the saves and answers the pulls of this client
pushAccepted == token # None => saveStatus(storedToken) = 200

pullAnswered == token # None /\ stateStatus(storedToken) = 200

\* convex.auth.getSession().then(...) at mount when fetchSession ends with an
\* error other than status 401: the token stays, no session is returned
checkSessionError ==
  /\ authLoading
  /\ authLoading' = FALSE
  /\ user' = None
  /\ currentScreen' = "auth"
  /\ UNCHANGED <<token, accountVars, historyVars, inputVars, sendVars, serverVars, load,
                 clock, profileVars, settingsVars, pushVars, harnessVars, backendVars>>

\* the session check at mount with a stored token
checkStoredSession ==
  /\ token # None
  /\ CASE sessionStatus(storedToken) = 200 -> checkSession(TRUE, pushAccepted)
       [] sessionStatus(storedToken) = 401 -> checkSession(FALSE, TRUE)
       [] OTHER -> checkSessionError

\* signUpWithEmail from the auth screen: the request
signUpWithEmail(email, passwordHash) ==
  /\ ~authLoading
  /\ currentScreen = "auth"
  /\ token = None
  /\ postSignUp(email, passwordHash)

\* signUpWithEmail after the answer: completeSignIn
completeSignIn ==
  /\ token = None
  /\ response.route = "/api/auth/sign-up"
  /\ response.status = 200
  /\ signIn([email |-> response.body.user.email,
             sessionToken |-> response.body.sessionToken],
            saveStatus(response.body.sessionToken) = 200)

NextRefusal ==
  \/ token = None /\ checkSession(FALSE, TRUE)
  \/ checkStoredSession
  \/ signUpWithEmail(EmailMeRaw, "h1")
  \/ completeSignIn
  \/ loadRemoteAnswer(pullAnswered, pushAccepted)
  \/ \E screen \in {"main", "settings"} : navigate(screen)
  \/ toggleDarkMode(pushAccepted)
  \/ syncErrorLogged
  \/ relaunch
  \/ \E days \in Elapses : tick(days)
  \/ \E header \in IssuedHeaders : postAccountDelete(header)

SpecRefusal == Init /\ [][NextRefusal]_vars

\* the backend refuses the stored token at the session check, at the pull of
\* the load, at a push
refusedSessionCheck ==
  authLoading /\ ~authLoading' /\ token # None /\ sessionStatus(storedToken) # 200

refusedPull ==
  load.pc = "awaiting" /\ load'.pc = "idle" /\ token # None
  /\ stateStatus(storedToken) # 200

refusedPush == pushErrors' > pushErrors /\ ~pushAccepted

\* C27: when the backend refuses the stored token at the session check, at
\* the pull of the remote state or at a push, the client removes the token,
\* has no user any more and shows the auth screen
C27_RefusedTokenSignsOut ==
  [][(refusedSessionCheck \/ refusedPull \/ refusedPush)
       => token' = None /\ user' = None /\ currentScreen' = "auth"]_vars

\* a session starts (the session check finds one, or a sign-in succeeds), or
\* the load of that start gets the answer to its pull: no handler of a user's
\* edit runs in these steps
sessionStarts == user = None /\ user' # None

loadEnds == load.pc = "awaiting" /\ load'.pc = "idle"

\* C28: signing in or relaunching with a session, without any edit by the
\* user, leaves the remote record of the user as it is: its account list and
\* its history are the same after the pull and the profile push of the start
C28_StartKeepsRemoteState ==
  [][((sessionStarts \/ loadEnds) /\ remote # None)
       => /\ remote' # None
          /\ remote'[1].emailAccounts = remote[1].emailAccounts
          /\ remote'[1].history = remote[1].history]_vars

\* C29: a send that succeeds leaves the new item in front of the history as
\* it is when the send completes, so a clearing or a pull that came while
\* the request was in flight is not undone
C29_SendKeepsHistoryChanges ==
  [][(SendTossEnds /\ send.response = "ok")
       => history' = Take(<<newToss(send)>> \o history, HISTORY_LIMIT)]_vars

(***************************************************************************)
(* Specification of the identities: sign-up, password sign-in and Apple    *)
(* sign-in calls with two emails and two Apple ids                         *)
(***************************************************************************)
AppleUserIds == {<<"a">>, <<"b">>}

AppleEmails == {None} \cup {Some(e) : e \in BackendEmails}

NextIdentities ==
  \/ \E e \in BackendEmails : postSignUp(e, "h1")
  \/ \E e \in BackendEmails : postSignIn(e, "h1")
  \/ \E a \in AppleUserIds, e \in AppleEmails : postApple(a, e)

SpecIdentities == Init /\ [][NextIdentities]_vars

\* C30: whatever sign-up, password sign-in and Apple sign-in calls were
\* made, no two rows of the users table carry the same email
C30_EmailsUnique ==
  \A u1 \in users, u2 \in users : u1.email = u2.email => u1 = u2
====
